---- MODULE Spec2Model ----
(***************************************************************************)
(* Smart telemetry storage of the UAV log viewer backend                   *)
(* (src/src/backend/libs/smart_telemetry_storage.py).                      *)
(*                                                                         *)
(* One ingestion (store_telemetry_intelligently) classifies the records of *)
(* a log by message type, writes the selected records, the flight          *)
(* statistics, the flight phases and the message summaries inside one      *)
(* database transaction, and commits.  The transaction is modelled by the  *)
(* pending row sets tx, which become part of the committed row sets db at  *)
(* commit and are discarded when an exception leaves the transaction.      *)
(*                                                                         *)
(* Python indices are 0-based and are kept 0-based in the model (the       *)
(* message with Python index i is messages[i + 1]).                        *)
(*                                                                         *)
(* query_specific_data reads the committed rows of the log a chat session  *)
(* is linked to; the sessions are rows of chat_sessions                    *)
(* (src/src/backend/libs/session_manager.py).  get_intelligent_summary     *)
(* renders the digest of such a log.                                       *)
(*                                                                         *)
(* Further parts: the coercion of record fields (_make_json_safe), the     *)
(* decoder (src/src/backend/libs/log_parser.py), and the chat messages of  *)
(* a session: add_message, get_chat_history and the chat turn of the       *)
(* websocket endpoint (src/src/backend/routers/chat.py).                   *)
(***************************************************************************)
EXTENDS Integers, Sequences, FiniteSets, TLC

VARIABLES
    messages,       \* the `messages` argument of the ingestion in progress
    log_id,         \* the `log_id` argument of the ingestion in progress
    pc,             \* position of the ingestion inside store_telemetry_intelligently
    storage_plan,   \* local `storage_plan`: plan entries in dict (insertion) order
    cursor,         \* number of plan entries _store_with_strategy has written
    stored_stats,   \* the counters of _store_with_strategy
    tx,             \* rows written by the open transaction, not yet committed
    db,             \* committed rows of the four tables
    result,         \* what the last call returned (or that it raised)
    ingestions,     \* number of calls of store_telemetry_intelligently so far
    rolled_back,    \* rows discarded by the last rollback, per table
    chat_sessions,  \* the chat_sessions table: session_id -> its row
    query,          \* the last call of query_specific_data and its outcome
    log_metadata,   \* the log_metadata table: log id -> its row
    summary_call,   \* the last call of get_intelligent_summary and its outcome
    raw_log,        \* the messages DFReader delivers for the uploaded bytes
    parse_result,   \* what parse_mavlink_log_bytes returned for raw_log
    safe_data,      \* the last call of _make_json_safe and its outcome
    chat_messages,  \* the chat_messages table, in insertion order
    add_calls,      \* the calls of add_message in progress, per caller
    turn            \* the chat turn of the websocket endpoint in progress

vars == <<messages, log_id, pc, storage_plan, cursor, stored_stats, tx, db,
          result, ingestions, rolled_back, chat_sessions, query, log_metadata,
          summary_call, raw_log, parse_result, safe_data, chat_messages,
          add_calls, turn>>

\* the variables of an ingestion, but for the committed rows
ingest_vars == <<messages, log_id, pc, storage_plan, cursor, stored_stats, tx,
                 result, ingestions, rolled_back>>

decode_vars == <<raw_log, parse_result, safe_data>>

chat_vars == <<chat_messages, add_calls, turn>>

\* what an ingestion leaves alone
session_vars == <<chat_sessions, query, log_metadata, summary_call, decode_vars, chat_vars>>

(***************************************************************************)
(* Bounds of the model.                                                    *)
(***************************************************************************)
\* longest arbitrary record sequence handed to an ingestion under Spec
MaxLen == 2
\* calls of store_telemetry_intelligently in one behaviour of Spec
MaxIngestions == 2
\* largest number of ATTITUDE records in an input of SpecIngest
MaxSampled == 21
\* non-configured records beyond the rare-message threshold in SpecIngest
MaxBulkExcess == 51
\* number of records of a critical type in the high-volume inputs
HighVolume == 120
\* longest input under SpecFlight
MaxFlightLen == 3
\* longest input ingested for the log the queries of SpecQuery read
MaxQueryLen == 3
\* largest `limit` a query of SpecQuery is given
MaxLimit == 2
\* number of records of the large log the queries of SpecQuery read
QueryVolume == 170
\* number of message types of the log with many types under SpecSummary
ManyTypes == 16
\* number of fields of a record under SpecCoerce
MaxFields == 3
\* number of messages of a log under SpecDecode
MaxRawLen == 2
\* number of messages a session holds before the chat turn under SpecChat
MaxHistory == 21

\* log ids an ingestion may be given
Logs == {1, 2}

\* log ids: those of Logs are in log_metadata, the last one never was
LogIds == 1..3

\* session ids
Sessions == {"s1"}

\* concurrent callers of add_message
Callers == {"ws", "other"}

(***************************************************************************)
(* Static taxonomy (SmartTelemetryStorage.__init__).                       *)
(***************************************************************************)
critical_messages ==
    {"MODE", "HEARTBEAT", "ARM", "DISARM", "TAKEOFF", "LAND",
     "STATUSTEXT", "ERROR", "CRITICAL", "ALERT", "EMERGENCY",
     "GPS_FIX_TYPE", "EKF_STATUS_REPORT", "VIBRATION", "POWER_STATUS"}

high_frequency_messages ==
    [ATTITUDE            |-> [sample_rate |-> 10],
     GLOBAL_POSITION_INT |-> [sample_rate |-> 5],
     LOCAL_POSITION_NED  |-> [sample_rate |-> 10],
     VFR_HUD             |-> [sample_rate |-> 5],
     RAW_IMU             |-> [sample_rate |-> 20],
     SERVO_OUTPUT_RAW    |-> [sample_rate |-> 10]]

\* `count < 100`: below this a non-configured type is stored in full
RareThreshold == 100
\* `count // 50`: target of the sampling of other high-volume types
BulkTarget == 50

\* the default `limit` of the four query types
CriticalEventsLimit == 50
MessageTypeLimit == 100
PhaseLimit == 100
DefaultLimit == 20

\* the chat turn: messages fetched for the conversation context
HistoryLimit == 20

\* the digest: message types fetched, and message types listed
SummaryRowsLimit == 15
TopMessageTypes == 8

Max(a, b) == IF a >= b THEN a ELSE b
Min(a, b) == IF a <= b THEN a ELSE b

(***************************************************************************)
(* Field values.  A value is tagged with the Python shape the coercion     *)
(* looks at: a scalar, a list/tuple, or an object with .tolist() (numpy).  *)
(***************************************************************************)
Scalar(v) == [kind |-> "scalar", v |-> v]
NdArray(s) == [kind |-> "ndarray", v |-> s]
PyList(s) == [kind |-> "list", v |-> s]
NoData == [k \in {} |-> Scalar(0)]

\* values json cannot serialize: a bytes object, and an object whose tolist
\* attribute cannot be called (the call raises TypeError)
Bytes(s) == [kind |-> "bytes", v |-> s]
Uncallable(s) == [kind |-> "uncallable", v |-> s]

\* str(value) of these
StrOf(val) ==
    CASE val.kind = "bytes" -> Scalar("b'" \o val.v \o "'")
      [] val.kind = "uncallable" -> Scalar("<" \o val.v \o " object>")

\* _make_json_safe: value.tolist() for array-likes, element-wise tolist for
\* lists and tuples, every other value unchanged; str(value) where the
\* conversion raises TypeError or AttributeError.
JsonSafeValue(val) ==
    CASE val.kind = "ndarray" -> PyList(val.v)
      [] val.kind = "list" -> PyList(val.v)
      [] val.kind = "uncallable" -> StrOf(val)
      [] OTHER -> val

MakeJsonSafe(data) == [k \in DOMAIN data |-> JsonSafeValue(data[k])]

(***************************************************************************)
(* Records.                                                                *)
(***************************************************************************)
\* the file_id column: None or a string
NoFile == [kind |-> "none"]
FileId(s) == [kind |-> "str", v |-> s]

Digits == <<"0", "1", "2", "3", "4", "5", "6", "7", "8", "9">>

\* str(n) of an int n >= 0
RECURSIVE Str(_)
Str(n) == IF n < 10 THEN Digits[n + 1] ELSE Str(n \div 10) \o Digits[(n % 10) + 1]

IsDigit(c) == \E d \in 1..10 : Digits[d] = c
DigitValue(c) == (CHOOSE d \in 1..10 : Digits[d] = c) - 1

\* s.strip() for blanks
RECURSIVE Strip(_)
Strip(s) ==
    IF Len(s) > 0 /\ SubSeq(s, 1, 1) = " " THEN Strip(SubSeq(s, 2, Len(s)))
    ELSE IF Len(s) > 0 /\ SubSeq(s, Len(s), Len(s)) = " "
    THEN Strip(SubSeq(s, 1, Len(s) - 1))
    ELSE s

\* the value of a string of digits
RECURSIVE DigitsValue(_)
DigitsValue(s) ==
    IF Len(s) = 0 THEN 0
    ELSE 10 * DigitsValue(SubSeq(s, 1, Len(s) - 1)) + DigitValue(SubSeq(s, Len(s), Len(s)))

\* int(s) of a string: blanks around, an optional sign, decimal digits;
\* anything else raises ValueError (ok = FALSE).  Underscores between
\* digits, which int() also accepts, do not occur in the model.
IntOf(s) ==
    LET t == Strip(s)
        signed == Len(t) > 0 /\ SubSeq(t, 1, 1) \in {"+", "-"}
        body == IF signed THEN SubSeq(t, 2, Len(t)) ELSE t
    IN  IF Len(body) > 0 /\ \A i \in 1..Len(body) : IsDigit(SubSeq(body, i, i))
        THEN [ok |-> TRUE,
              v |-> IF signed /\ SubSeq(t, 1, 1) = "-"
                    THEN 0 - DigitsValue(body) ELSE DigitsValue(body)]
        ELSE [ok |-> FALSE]

\* the file ids a session is created with: none, the id of an uploaded log
\* as upload_log passes it (ids 1 and 2 have rows, 3 has none), or any
\* string of the client of POST /chat/sessions
FileIds == {NoFile} \cup {FileId(Str(l)) : l \in 1..3} \cup {FileId(""), FileId("abc")}

Message(t, ts, data) == [message_type |-> t, timestamp |-> ts, data |-> data]

\* Python's `k in data` and `data.get(k, default)`
HasField(data, k) == k \in DOMAIN data
GetField(data, k, default) == IF k \in DOMAIN data THEN data[k].v ELSE default

\* the message with Python index i
At(msgs, i) == msgs[i + 1]

\* variant: the last element is always kept as well
SliceKeepingLast(seq, step) ==
    LET pos == SelectSeq([k \in 1..Len(seq) |-> k - 1], LAMBDA p : p % step = 0)
    IN  [k \in 1..Len(pos) |-> seq[pos[k] + 1]] \o <<seq[Len(seq)]>>

\* indices[::step]: the elements at the positions 0, step, 2*step, ...
Slice(seq, step) ==
    LET pos == SelectSeq([k \in 1..Len(seq) |-> k - 1], LAMBDA p : p % step = 0)
    IN  [k \in 1..Len(pos) |-> seq[pos[k] + 1]]

\* variant: the indices counted within the type, 0 .. count - 1
IndicesWithinType(msgs, t) ==
    LET n == Len(SelectSeq(msgs, LAMBDA m : m.message_type = t))
    IN  [k \in 1..n |-> k - 1]

\* message_types[msg_type]: the indices of the messages of one type, in
\* the order enumerate(messages) appends them
IndicesOf(msgs, t) ==
    SelectSeq([k \in 1..Len(msgs) |-> k - 1],
              LAMBDA i : At(msgs, i).message_type = t)

\* the keys of a dict filled in one pass over the messages: the message
\* types in the order of their first occurrence
TypesInOrder(msgs) ==
    LET firsts == SelectSeq([k \in 1..Len(msgs) |-> k - 1],
                      LAMBDA i : \A j \in 0..(i - 1) :
                                    At(msgs, j).message_type # At(msgs, i).message_type)
    IN  [k \in 1..Len(firsts) |-> At(msgs, firsts[k]).message_type]

(***************************************************************************)
(* Classifier: _analyze_messages.                                          *)
(***************************************************************************)
\* variant: HEARTBEAT left out of the critical set
IsCriticalWithoutHeartbeat(msg_type) == msg_type \in critical_messages \ {"HEARTBEAT"}

\* `msg_type in self.critical_messages`
IsCritical(msg_type) == msg_type \in critical_messages

\* `msg_type in self.high_frequency_messages`
IsHighFrequency(msg_type) == msg_type \in DOMAIN high_frequency_messages

\* variant: `count <= 100`
IsRareInclusive(count) == count <= RareThreshold

\* `count < 100`: a rare message type
IsRare(count) == count < RareThreshold

\* variant: the step rounded up instead of down
SampleStepRoundedUp(count, sample_rate) ==
    IF count > sample_rate THEN Max(1, (count + sample_rate - 1) \div sample_rate) ELSE 1

\* step of a configured high-frequency type
SampleStep(count, sample_rate) ==
    IF count > sample_rate THEN Max(1, count \div sample_rate) ELSE 1

\* variant: the step rounded up instead of down
BulkStepRoundedUp(count) == Max(1, (count + BulkTarget - 1) \div BulkTarget)

\* step of a non-configured type with RareThreshold records or more
BulkStep(count) == Max(1, count \div BulkTarget)

\* storage_plan[msg_type] (the entry carries its key)
PlanEntry(msg_type, indices) ==
    LET count == Len(indices)
    IN  IF IsCritical(msg_type)
        THEN [msg_type |-> msg_type, strategy |-> "critical", indices |-> indices]
        ELSE IF IsHighFrequency(msg_type)
        THEN LET sample_rate == high_frequency_messages[msg_type].sample_rate
                 step == SampleStep(count, sample_rate)
                 sampled_indices == Slice(indices, step)
             IN  [msg_type |-> msg_type, strategy |-> "sampled",
                  indices |-> sampled_indices, original_count |-> count,
                  sample_rate |-> Len(sampled_indices)]
        ELSE IF IsRare(count)
        THEN [msg_type |-> msg_type, strategy |-> "full", indices |-> indices]
        ELSE LET step == BulkStep(count)
                 sampled_indices == Slice(indices, step)
             IN  [msg_type |-> msg_type, strategy |-> "sampled",
                  indices |-> sampled_indices, original_count |-> count,
                  sample_rate |-> Len(sampled_indices)]

AnalyzeMessages(msgs) ==
    LET order == TypesInOrder(msgs)
    IN  [k \in 1..Len(order) |-> PlanEntry(order[k], IndicesOf(msgs, order[k]))]

(***************************************************************************)
(* Phase tags: _determine_phase_tags.                                      *)
(*                                                                         *)
(* progress = index / total_messages is a double compared with the         *)
(* literals 0.1, 0.2, 0.8 and 0.95.  The division is correctly rounded and *)
(* rounding is monotone, and a quotient index / total that differs from a  *)
(* threshold differs from it by at least 1 / (20 * total), far more than   *)
(* the spacing of doubles for any total a log can have; so each comparison *)
(* decides exactly as the comparison of the rationals, which is what the   *)
(* integer inequalities below compute.                                     *)
(***************************************************************************)
\* variant: the bands closed on the right (`<=` for `<`)
ProgressTagInclusive(index, total_messages) ==
    IF 10 * index <= total_messages THEN "startup"
    ELSE IF 10 * index <= 2 * total_messages THEN "preflight"
    ELSE IF 10 * index <= 8 * total_messages THEN "flight"
    ELSE IF 100 * index <= 95 * total_messages THEN "landing"
    ELSE "shutdown"

ProgressTag(index, total_messages) ==
    IF 10 * index < total_messages THEN "startup"
    ELSE IF 10 * index < 2 * total_messages THEN "preflight"
    ELSE IF 10 * index < 8 * total_messages THEN "flight"
    ELSE IF 100 * index < 95 * total_messages THEN "landing"
    ELSE "shutdown"

\* `sub in s` for two strings: s has a substring equal to sub
In(sub, s) ==
    \E i \in 1..(Len(s) - Len(sub) + 1) : SubSeq(s, i, i + Len(sub) - 1) = sub

\* variant: the type name is compared with the two words, not searched for them
NamesAlertExactly(msg_type) == msg_type = "ERROR" \/ msg_type = "ALERT"

\* `"ERROR" in msg_type or "ALERT" in msg_type`
NamesAlert(msg_type) == In("ERROR", msg_type) \/ In("ALERT", msg_type)

EventTags(msg_type) ==
    IF msg_type \in {"TAKEOFF", "LAND"} THEN <<"critical_event">>
    ELSE IF msg_type = "MODE" THEN <<"mode_change">>
    ELSE IF NamesAlert(msg_type) THEN <<"alert">>
    ELSE <<>>

DeterminePhaseTags(msg, index, total_messages) ==
    <<ProgressTag(index, total_messages)>> \o EventTags(msg.message_type)

(***************************************************************************)
(* Tier writer: the rows one iteration of the outer loop of                *)
(* _store_with_strategy inserts into smart_telemetry.                      *)
(***************************************************************************)
TelemetryRow(l, msgs, msg_type, strategy, msg_idx) ==
    LET msg == At(msgs, msg_idx)
    IN  [log_id |-> l, message_type |-> msg_type, timestamp |-> msg.timestamp,
         data |-> MakeJsonSafe(msg.data), storage_strategy |-> strategy,
         sampling_index |-> msg_idx,
         phase_tags |-> DeterminePhaseTags(msg, msg_idx, Len(msgs))]

\* variant: the first index of the entry is passed over
RowsOfEntrySkippingFirst(l, msgs, plan) ==
    [k \in 1..(Len(plan.indices) - 1) |->
        TelemetryRow(l, msgs, plan.msg_type, plan.strategy, plan.indices[k + 1])]

RowsOfEntry(l, msgs, plan) ==
    [k \in 1..Len(plan.indices) |->
        TelemetryRow(l, msgs, plan.msg_type, plan.strategy, plan.indices[k])]

\* the counters after the rows of one plan entry
Counted(stats, plan) ==
    LET n == Len(plan.indices)
    IN  IF plan.strategy = "critical"
        THEN [stats EXCEPT !.critical_count = @ + n]
        ELSE IF plan.strategy = "sampled"
        THEN [stats EXCEPT !.sampled_count = @ + n]
        ELSE [stats EXCEPT !.full_count = @ + n]

NoStats == [critical_count |-> 0, sampled_count |-> 0, full_count |-> 0]

TotalStored(stats) == stats.critical_count + stats.sampled_count + stats.full_count

(***************************************************************************)
(* Statistics aggregator: _compute_flight_statistics.                      *)
(*                                                                         *)
(* Field values and timestamps are integers in the model.  A statistic's   *)
(* value is kept as the exact term the code evaluates in floating point:   *)
(* Ratio(n, d) for n / d, Planar(dlat, dlon) for                           *)
(* sqrt((dlat / 1e7)^2 + (dlon / 1e7)^2) * 111000.                         *)
(***************************************************************************)
Ratio(n, d) == [kind |-> "ratio", num |-> n, den |-> d]
Planar(dlat, dlon) == [kind |-> "planar", dlat |-> dlat, dlon |-> dlon]

\* the folds below halve their range, so that their depth stays small on
\* long lists
RECURSIVE SumRange(_, _, _)
SumRange(s, lo, hi) ==
    IF lo > hi THEN 0
    ELSE IF lo = hi THEN s[lo]
    ELSE LET mid == (lo + hi) \div 2
         IN  SumRange(s, lo, mid) + SumRange(s, mid + 1, hi)

SumSeq(s) == SumRange(s, 1, Len(s))

RECURSIVE MaxRange(_, _, _)
MaxRange(s, lo, hi) ==
    IF lo = hi THEN s[lo]
    ELSE LET mid == (lo + hi) \div 2
             l == MaxRange(s, lo, mid)
             r == MaxRange(s, mid + 1, hi)
         IN  IF l >= r THEN l ELSE r

RECURSIVE MinRange(_, _, _)
MinRange(s, lo, hi) ==
    IF lo = hi THEN s[lo]
    ELSE LET mid == (lo + hi) \div 2
             l == MinRange(s, lo, mid)
             r == MinRange(s, mid + 1, hi)
         IN  IF l <= r THEN l ELSE r

\* max(s) and min(s) of a non-empty list
MaxOf(s) == MaxRange(s, 1, Len(s))
MinOf(s) == MinRange(s, 1, Len(s))

\* by_type[t]: the messages of one type, in order
ByType(msgs, t) == SelectSeq(msgs, LAMBDA m : m.message_type = t)

Stat(type, value, unit) == [statistic_type |-> type, value |-> value, unit |-> unit]

\* variant: a record without relative_alt counts with altitude 0
AltitudeStatisticsDefaulting(msgs) ==
    LET gps_msgs == ByType(msgs, "GLOBAL_POSITION_INT")
        altitudes == [k \in 1..Len(gps_msgs) |->
                         GetField(gps_msgs[k].data, "relative_alt", 0)]
    IN  IF altitudes # <<>>
        THEN <<Stat("max_altitude", Ratio(MaxOf(altitudes), 1000), "meters"),
               Stat("min_altitude", Ratio(MinOf(altitudes), 1000), "meters"),
               Stat("avg_altitude", Ratio(SumSeq(altitudes), 1000 * Len(altitudes)),
                    "meters")>>
        ELSE <<>>

AltitudeStatistics(msgs) ==
    LET gps_msgs == ByType(msgs, "GLOBAL_POSITION_INT")
        with == SelectSeq(gps_msgs, LAMBDA m : HasField(m.data, "relative_alt"))
        \* relative_alt / 1000.0, kept in millimetres with the divisor apart
        altitudes == [k \in 1..Len(with) |-> GetField(with[k].data, "relative_alt", 0)]
    IN  IF altitudes # <<>>
        THEN <<Stat("max_altitude", Ratio(MaxOf(altitudes), 1000), "meters"),
               Stat("min_altitude", Ratio(MinOf(altitudes), 1000), "meters"),
               Stat("avg_altitude", Ratio(SumSeq(altitudes), 1000 * Len(altitudes)),
                    "meters")>>
        ELSE <<>>

DurationStatistics(msgs) ==
    IF msgs # <<>>
    THEN <<Stat("flight_duration",
                Ratio(msgs[Len(msgs)].timestamp - msgs[1].timestamp, 1), "seconds")>>
    ELSE <<>>

SpeedStatistics(msgs) ==
    LET vfr_msgs == ByType(msgs, "VFR_HUD")
        with == SelectSeq(vfr_msgs, LAMBDA m : HasField(m.data, "groundspeed"))
        speeds == [k \in 1..Len(with) |-> GetField(with[k].data, "groundspeed", 0)]
    IN  IF speeds # <<>>
        THEN <<Stat("max_speed", Ratio(MaxOf(speeds), 1), "m/s"),
               Stat("avg_speed", Ratio(SumSeq(speeds), Len(speeds)), "m/s")>>
        ELSE <<>>

DistanceStatistics(msgs) ==
    LET gps_msgs == ByType(msgs, "GLOBAL_POSITION_INT")
    IN  IF Len(gps_msgs) >= 2
        THEN LET start_pos == gps_msgs[1].data
                 end_pos == gps_msgs[Len(gps_msgs)].data
             IN  IF \A k \in {"lat", "lon"} :
                        HasField(start_pos, k) /\ HasField(end_pos, k)
                 THEN <<Stat("total_distance",
                             Planar(end_pos["lat"].v - start_pos["lat"].v,
                                    end_pos["lon"].v - start_pos["lon"].v),
                             "meters")>>
                 ELSE <<>>
        ELSE <<>>

ComputeFlightStatistics(msgs) ==
    AltitudeStatistics(msgs) \o DurationStatistics(msgs)
        \o SpeedStatistics(msgs) \o DistanceStatistics(msgs)

\* _store_flight_statistics: one row per computed statistic
StatisticsRows(l, stats) ==
    [k \in 1..Len(stats) |->
        [log_id |-> l, statistic_type |-> stats[k].statistic_type,
         value |-> stats[k].value, unit |-> stats[k].unit]]

(***************************************************************************)
(* Phase segmenter: _identify_flight_phases.                               *)
(***************************************************************************)
NoPhase == "None"

\* variant: the two times exchanged
FlightPhaseReversed(name, start, end) ==
    [phase_name |-> name, start_time |-> end, end_time |-> start]

FlightPhase(name, start, end) ==
    [phase_name |-> name, start_time |-> start, end_time |-> end]

\* The loop changes its state at MODE records only.  PhaseScan(msgs, modes, k)
\* is its state after the k-th MODE record (modes: the indices of the MODE
\* records): the phases appended so far, current_phase and phase_start.
\* variant: a MODE record that repeats the current mode is passed over
RECURSIVE PhaseScanOnChange(_, _, _)
PhaseScanOnChange(msgs, modes, k) ==
    IF k = 0
    THEN [phases |-> <<>>, current_phase |-> NoPhase, phase_start |-> 0]
    ELSE LET before == PhaseScanOnChange(msgs, modes, k - 1)
             i == modes[k]
             msg == At(msgs, i)
             mode == GetField(msg.data, "mode", "unknown")
         IN  IF before.current_phase = "mode_" \o mode
             THEN before
             ELSE [phases |->
                      IF before.current_phase # NoPhase
                      THEN Append(before.phases,
                                  FlightPhase(before.current_phase,
                                              At(msgs, before.phase_start).timestamp,
                                              msg.timestamp))
                      ELSE before.phases,
                   current_phase |-> "mode_" \o mode,
                   phase_start |-> i]

RECURSIVE PhaseScan(_, _, _)
PhaseScan(msgs, modes, k) ==
    IF k = 0
    THEN [phases |-> <<>>, current_phase |-> NoPhase, phase_start |-> 0]
    ELSE LET before == PhaseScan(msgs, modes, k - 1)
             i == modes[k]
             msg == At(msgs, i)
             mode == GetField(msg.data, "mode", "unknown")
         IN  [phases |->
                 IF before.current_phase # NoPhase
                 THEN Append(before.phases,
                             FlightPhase(before.current_phase,
                                         At(msgs, before.phase_start).timestamp,
                                         msg.timestamp))
                 ELSE before.phases,
              current_phase |-> "mode_" \o mode,
              phase_start |-> i]

\* variant: the first phase opens at the first record of the input
IdentifyFlightPhasesFromStart(msgs) ==
    LET modes == IndicesOf(msgs, "MODE")
        final == PhaseScan(msgs, modes, Len(modes))
        phases == IF final.current_phase # NoPhase /\ msgs # <<>>
                  THEN Append(final.phases,
                              FlightPhase(final.current_phase,
                                          At(msgs, final.phase_start).timestamp,
                                          msgs[Len(msgs)].timestamp))
                  ELSE final.phases
    IN  IF phases = <<>> THEN phases
        ELSE [phases EXCEPT ![1].start_time = msgs[1].timestamp]

IdentifyFlightPhases(msgs) ==
    LET modes == IndicesOf(msgs, "MODE")
        final == PhaseScan(msgs, modes, Len(modes))
    IN  IF final.current_phase # NoPhase /\ msgs # <<>>
        THEN Append(final.phases,
                    FlightPhase(final.current_phase,
                                At(msgs, final.phase_start).timestamp,
                                msgs[Len(msgs)].timestamp))
        ELSE final.phases

\* _store_flight_phases
PhaseRows(l, phases) ==
    [k \in 1..Len(phases) |->
        [log_id |-> l, phase_name |-> phases[k].phase_name,
         start_time |-> phases[k].start_time, end_time |-> phases[k].end_time]]

(***************************************************************************)
(* Message summaries: _create_message_summaries, _store_message_summaries. *)
(***************************************************************************)
CreateMessageSummaries(msgs, stats) ==
    LET order == TypesInOrder(msgs)
    IN  [k \in 1..Len(order) |->
            LET msgs_of == ByType(msgs, order[k])
                timestamps == [j \in 1..Len(msgs_of) |-> msgs_of[j].timestamp]
            IN  [message_type |-> order[k], count |-> Len(msgs_of),
                 time_range |-> <<MinOf(timestamps), MaxOf(timestamps)>>,
                 sample_rate |-> 1]]

\* the stored_count column of the row written for one summary
SummaryStoredCount(summary) == summary.count

SummaryRows(l, summaries) ==
    [k \in 1..Len(summaries) |->
        [log_id |-> l, message_type |-> summaries[k].message_type,
         total_count |-> summaries[k].count,
         stored_count |-> SummaryStoredCount(summaries[k]),
         sample_rate |-> summaries[k].sample_rate,
         time_range_start |-> summaries[k].time_range[1],
         time_range_end |-> summaries[k].time_range[2]]]

(***************************************************************************)
(* Inputs.                                                                 *)
(***************************************************************************)
\* the fields the records of the model carry, by message type
DataOf(t, i) ==
    CASE t = "MODE" -> [mode |-> Scalar(IF i % 2 = 0 THEN "GUIDED" ELSE "AUTO")]
      [] t = "GLOBAL_POSITION_INT" ->
            [relative_alt |-> Scalar(1000 * i), lat |-> Scalar(i), lon |-> Scalar(2 * i)]
      [] t = "ATTITUDE" -> [roll |-> NdArray(<<i>>)]
      [] OTHER -> NoData

\* the record stream with the given message types; timestamps in seconds,
\* non-decreasing, two records per second
Stream(types) ==
    [k \in 1..Len(types) |-> Message(types[k], (k - 1) \div 2, DataOf(types[k], k - 1))]

\* Under Spec: every sequence of at most MaxLen records of two kinds
ShortTypes == {"MODE", "GLOBAL_POSITION_INT"}
ShortInputs ==
    {Stream(ts) : ts \in UNION {[1..n -> ShortTypes] : n \in 0..MaxLen}}

\* Under SpecIngest: a composition gives the number of records per type;
\* its records come type after type ("blocks") or in rotation ("rotate")
CompOrder == <<"MODE", "HEARTBEAT", "ATTITUDE", "GLOBAL_POSITION_INT", "RARE_DEBUG">>

Comp(mode, hb, att, gps, rare) ==
    [MODE |-> mode, HEARTBEAT |-> hb, ATTITUDE |-> att,
     GLOBAL_POSITION_INT |-> gps, RARE_DEBUG |-> rare]

RECURSIVE BlockTypes(_, _)
BlockTypes(comp, k) ==
    IF k > Len(CompOrder) THEN <<>>
    ELSE [j \in 1..comp[CompOrder[k]] |-> CompOrder[k]] \o BlockTypes(comp, k + 1)

\* the types with more than `round` records, in order
RoundTypes(comp, round) == SelectSeq(CompOrder, LAMBDA t : comp[t] > round)

\* the rounds lo..hi of the rotation
RECURSIVE RotateTypes(_, _, _)
RotateTypes(comp, lo, hi) ==
    IF lo > hi THEN <<>>
    ELSE IF lo = hi THEN RoundTypes(comp, lo)
    ELSE LET mid == (lo + hi) \div 2
         IN  RotateTypes(comp, lo, mid) \o RotateTypes(comp, mid + 1, hi)

Rounds(comp) == MaxOf([k \in 1..Len(CompOrder) |-> comp[CompOrder[k]]])

Compositions ==
    \* sweep of a configured high-frequency type around its target
    {Comp(m, 0, a, g, r) :
        m \in {0, 2}, a \in 1..MaxSampled, g \in {0, 11}, r \in {0, 3}}
    \* sweep of a non-configured type around the rare-message threshold
    \cup {Comp(m, 0, a, 0, r) :
        m \in {0, 2}, a \in {0, 12},
        r \in (RareThreshold - 1)..(RareThreshold + MaxBulkExcess)}
    \* a critical type in high volume
    \cup {Comp(0, HighVolume, a, 0, r) : a \in {0, 25}, r \in {0, RareThreshold}}
    \* 1000 records: 900 ATTITUDE, 50 HEARTBEAT, 50 of a rare type
    \cup {Comp(0, 50, 900, 0, 50)}

LargeInputs ==
    {Stream(BlockTypes(c, 1)) : c \in Compositions}
        \cup {Stream(RotateTypes(c, 0, Rounds(c) - 1)) : c \in Compositions}

\* Under SpecFlight: every sequence of at most MaxFlightLen records drawn
\* from one of three families of records
NonEmptySeqs(S) == UNION {[1..n -> S] : n \in 1..MaxFlightLen}

\* the types the event tags tell apart, with types whose names hold one of
\* the two words inside and one that holds only the beginning of a word
TagTypes ==
    {"TAKEOFF", "LAND", "MODE", "ERROR", "SYS_ERROR", "ALERT_STATE", "TERRAIN_REPORT"}

TagInputs == {Stream(ts) : ts \in NonEmptySeqs(TagTypes)}

\* mode changes and other records at any of three times, in any order of
\* the times (a record without a time field gets 0.0 from the decoder)
Times == {0, 100, 200}

PhaseRecords ==
    {Message("MODE", ts, [mode |-> Scalar(m)]) : ts \in Times, m \in {"GUIDED", "AUTO"}}
        \cup {Message("HEARTBEAT", ts, NoData) : ts \in Times}

PhaseInputs == NonEmptySeqs(PhaseRecords)

\* position and speed records with and without the fields the statistics read
StatKinds == {"gps", "gps_no_alt", "gps_no_lat", "vfr", "vfr_no_speed", "heartbeat"}

StatRecord(kind, i) ==
    CASE kind = "gps" ->
            Message("GLOBAL_POSITION_INT", 10 * i,
                    [relative_alt |-> Scalar(1000 * (i + 1)), lat |-> Scalar(i),
                     lon |-> Scalar(2 * i)])
      [] kind = "gps_no_alt" ->
            Message("GLOBAL_POSITION_INT", 10 * i,
                    [lat |-> Scalar(i), lon |-> Scalar(2 * i)])
      [] kind = "gps_no_lat" ->
            Message("GLOBAL_POSITION_INT", 10 * i,
                    [relative_alt |-> Scalar(1000 * (i + 1)), lon |-> Scalar(2 * i)])
      [] kind = "vfr" ->
            Message("VFR_HUD", 10 * i, [groundspeed |-> Scalar(i + 1)])
      [] kind = "vfr_no_speed" -> Message("VFR_HUD", 10 * i, [alt |-> Scalar(i)])
      [] OTHER -> Message("HEARTBEAT", 10 * i, NoData)

StatInputs ==
    {[k \in 1..Len(ks) |-> StatRecord(ks[k], k - 1)] : ks \in NonEmptySeqs(StatKinds)}

FlightInputs == TagInputs \cup PhaseInputs \cup StatInputs

(***************************************************************************)
(* State.                                                                  *)
(***************************************************************************)
\* no session row; no call of query_specific_data yet
NoSessions == [s \in Sessions |-> [exists |-> FALSE]]
NoQuery == [outcome |-> "none"]

\* the log_metadata row an upload creates (upload_log_file sets filename,
\* upload_time and notes; vehicle_type stays NULL)
LogRow(l) == [exists |-> TRUE, filename |-> "log" \o Str(l) \o ".bin",
              vehicle_type |-> NoFile]
NoLog == [exists |-> FALSE]
AllLogs == [l \in LogIds |-> IF l \in Logs THEN LogRow(l) ELSE NoLog]

\* no call of get_intelligent_summary, of the decoder, of add_message or of
\* the chat endpoint yet
NoSummary == [outcome |-> "none"]
NoParse == [status |-> "none"]
NoCoercion == [outcome |-> "none"]
NoCalls == [c \in Callers |-> [pc |-> "idle"]]
NoTurn == [pc |-> "idle"]

Tables == {"smart_telemetry", "flight_statistics", "flight_phases", "message_summaries"}

NoRows == [t \in Tables |-> <<>>]
NoCount == [t \in Tables |-> 0]

\* the rows of one log in a table
RowsOf(rows, l) == SelectSeq(rows, LAMBDA r : r.log_id = l)

InTransaction == pc \in {"analyze", "store", "stats", "phases", "summaries", "commit"}

Init ==
    /\ messages = <<>>
    /\ log_id = 0
    /\ pc = "idle"
    /\ storage_plan = <<>>
    /\ cursor = 0
    /\ stored_stats = NoStats
    /\ tx = NoRows
    /\ db = NoRows
    /\ result = [status |-> "none"]
    /\ ingestions = 0
    /\ rolled_back = NoCount
    /\ chat_sessions = NoSessions
    /\ query = NoQuery
    /\ log_metadata = AllLogs
    /\ summary_call = NoSummary
    /\ raw_log = <<>>
    /\ parse_result = NoParse
    /\ safe_data = NoCoercion
    /\ chat_messages = <<>>
    /\ add_calls = NoCalls
    /\ turn = NoTurn

\* the state in which store_telemetry_intelligently(1, msgs) has opened its
\* transaction on an empty store
InitIngest ==
    /\ messages \in LargeInputs
    /\ log_id = 1
    /\ pc = "analyze"
    /\ storage_plan = <<>>
    /\ cursor = 0
    /\ stored_stats = NoStats
    /\ tx = NoRows
    /\ db = NoRows
    /\ result = [status |-> "none"]
    /\ ingestions = 1
    /\ rolled_back = NoCount
    /\ chat_sessions = NoSessions
    /\ query = NoQuery
    /\ log_metadata = AllLogs
    /\ summary_call = NoSummary
    /\ raw_log = <<>>
    /\ parse_result = NoParse
    /\ safe_data = NoCoercion
    /\ chat_messages = <<>>
    /\ add_calls = NoCalls
    /\ turn = NoTurn

\* the same state, for the inputs of FlightInputs
InitFlight ==
    /\ messages \in FlightInputs
    /\ log_id = 1
    /\ pc = "analyze"
    /\ storage_plan = <<>>
    /\ cursor = 0
    /\ stored_stats = NoStats
    /\ tx = NoRows
    /\ db = NoRows
    /\ result = [status |-> "none"]
    /\ ingestions = 1
    /\ rolled_back = NoCount
    /\ chat_sessions = NoSessions
    /\ query = NoQuery
    /\ log_metadata = AllLogs
    /\ summary_call = NoSummary
    /\ raw_log = <<>>
    /\ parse_result = NoParse
    /\ safe_data = NoCoercion
    /\ chat_messages = <<>>
    /\ add_calls = NoCalls
    /\ turn = NoTurn

(***************************************************************************)
(* store_telemetry_intelligently, step by step.                            *)
(***************************************************************************)
\* the call: an empty list is refused before a connection is acquired,
\* otherwise the transaction is opened
\* variant: no test for an empty list, the transaction is always opened
BeginWithoutEmptyTest(l, msgs) ==
    /\ ~InTransaction
    /\ ingestions < MaxIngestions
    /\ ingestions' = ingestions + 1
    /\ messages' = msgs
    /\ log_id' = l
    /\ storage_plan' = <<>>
    /\ cursor' = 0
    /\ stored_stats' = NoStats
    /\ rolled_back' = NoCount
    /\ result' = [status |-> "none"]
    /\ pc' = "analyze"
    /\ UNCHANGED <<session_vars, tx, db>>

Begin(l, msgs) ==
    /\ ~InTransaction
    /\ ingestions < MaxIngestions
    /\ ingestions' = ingestions + 1
    /\ messages' = msgs
    /\ log_id' = l
    /\ storage_plan' = <<>>
    /\ cursor' = 0
    /\ stored_stats' = NoStats
    /\ rolled_back' = NoCount
    /\ IF msgs = <<>>
       THEN /\ result' = [status |-> "error", message |-> "No messages to process"]
            /\ pc' = "rejected"
       ELSE /\ result' = [status |-> "none"]
            /\ pc' = "analyze"
    /\ UNCHANGED <<session_vars, tx, db>>

\* storage_plan = await self._analyze_messages(messages)
Analyze ==
    /\ pc = "analyze"
    /\ storage_plan' = AnalyzeMessages(messages)
    /\ pc' = "store"
    /\ UNCHANGED <<session_vars, messages, log_id, cursor, stored_stats, tx, db, result,
                   ingestions, rolled_back>>

\* one iteration of `for msg_type, plan in storage_plan.items()`
StoreWithStrategy ==
    /\ pc = "store"
    /\ cursor < Len(storage_plan)
    \* log_id REFERENCES log_metadata(id): without the log the INSERT raises
    /\ log_metadata[log_id].exists
    /\ LET plan == storage_plan[cursor + 1]
       IN  /\ tx' = [tx EXCEPT !.smart_telemetry =
                        @ \o RowsOfEntry(log_id, messages, plan)]
           /\ stored_stats' = Counted(stored_stats, plan)
    /\ cursor' = cursor + 1
    /\ pc' = IF cursor + 1 = Len(storage_plan) THEN "stats" ELSE "store"
    /\ UNCHANGED <<session_vars, messages, log_id, storage_plan, db, result, ingestions,
                   rolled_back>>

\* _compute_flight_statistics and _store_flight_statistics
StoreFlightStatistics ==
    /\ pc = "stats"
    /\ tx' = [tx EXCEPT !.flight_statistics =
                 @ \o StatisticsRows(log_id, ComputeFlightStatistics(messages))]
    /\ pc' = "phases"
    /\ UNCHANGED <<session_vars, messages, log_id, storage_plan, cursor, stored_stats, db,
                   result, ingestions, rolled_back>>

\* _identify_flight_phases and _store_flight_phases
StoreFlightPhases ==
    /\ pc = "phases"
    /\ tx' = [tx EXCEPT !.flight_phases =
                 @ \o PhaseRows(log_id, IdentifyFlightPhases(messages))]
    /\ pc' = "summaries"
    /\ UNCHANGED <<session_vars, messages, log_id, storage_plan, cursor, stored_stats, db,
                   result, ingestions, rolled_back>>

\* _create_message_summaries and _store_message_summaries
StoreMessageSummaries ==
    /\ pc = "summaries"
    /\ tx' = [tx EXCEPT !.message_summaries =
                 @ \o SummaryRows(log_id, CreateMessageSummaries(messages, stored_stats))]
    /\ pc' = "commit"
    /\ UNCHANGED <<session_vars, messages, log_id, storage_plan, cursor, stored_stats, db,
                   result, ingestions, rolled_back>>

\* the result dict of a successful ingestion
SuccessResult ==
    [status |-> "success",
     total_messages |-> Len(messages),
     stored_critical |-> stored_stats.critical_count,
     stored_sampled |-> stored_stats.sampled_count,
     stored_full |-> stored_stats.full_count,
     storage_efficiency |-> Ratio(TotalStored(stored_stats), Len(messages)),
     flight_phases |-> Len(tx.flight_phases),
     computed_statistics |-> Len(tx.flight_statistics)]

\* leaving `async with conn.transaction()` normally: the rows are committed
Commit ==
    /\ pc = "commit"
    /\ db' = [t \in Tables |-> db[t] \o tx[t]]
    /\ tx' = NoRows
    /\ result' = SuccessResult
    /\ pc' = "done"
    /\ UNCHANGED <<session_vars, messages, log_id, storage_plan, cursor, stored_stats,
                   ingestions, rolled_back>>

\* variant: no transaction around the writes, which then survive the exception
FailKeepingWrites ==
    /\ InTransaction
    /\ rolled_back' = NoCount
    /\ db' = [t \in Tables |-> db[t] \o tx[t]]
    /\ tx' = NoRows
    /\ result' = [status |-> "raised"]
    /\ pc' = "failed"
    /\ UNCHANGED <<session_vars, messages, log_id, storage_plan, cursor, stored_stats, ingestions>>

\* an exception inside the transaction block (a statement the store
\* rejects, a lost connection): the transaction is rolled back and the
\* exception reaches the caller
Fail ==
    /\ InTransaction
    /\ rolled_back' = [t \in Tables |-> Len(tx[t])]
    /\ tx' = NoRows
    /\ result' = [status |-> "raised"]
    /\ pc' = "failed"
    /\ UNCHANGED <<session_vars, messages, log_id, storage_plan, cursor, stored_stats, db,
                   ingestions>>

Pipeline ==
    \/ Analyze
    \/ StoreWithStrategy
    \/ StoreFlightStatistics
    \/ StoreFlightPhases
    \/ StoreMessageSummaries
    \/ Commit
    \/ Fail

Next ==
    \/ \E l \in Logs, msgs \in ShortInputs : Begin(l, msgs)
    \/ Pipeline

Spec == Init /\ [][Next]_vars

NextIngest == Pipeline

SpecIngest == InitIngest /\ [][NextIngest]_vars

SpecFlight == InitFlight /\ [][NextIngest]_vars

(***************************************************************************)
(* Sessions and queries: SessionManager.create_session and                 *)
(* query_specific_data.  A query reads committed rows only.  The pool is   *)
(* taken as initialised, as it is for an ingestion.                        *)
(***************************************************************************)
\* the row INSERTed by create_session, as far as the queries read it
SessionRow(file_id) == [exists |-> TRUE, file_id |-> file_id, message_count |-> 0]

\* create_session(file_id = ...): a row under a fresh id
CreateSession(session_id, file_id) ==
    /\ ~chat_sessions[session_id].exists
    /\ chat_sessions' = [chat_sessions EXCEPT ![session_id] = SessionRow(file_id)]
    /\ UNCHANGED <<ingest_vars, db, query, log_metadata, summary_call, decode_vars,
                   chat_vars>>

\* `not file_id`: None and the empty string are false
Falsy(file_id) == file_id = NoFile \/ file_id = FileId("")

\* kwargs.get(key, default)
KwGet(kwargs, key, default) == IF key \in DOMAIN kwargs THEN kwargs[key] ELSE default

\* the LIMIT parameter of the statement of a query type
LimitOf(query_type, kwargs) ==
    CASE query_type = "critical_events" -> KwGet(kwargs, "limit", CriticalEventsLimit)
      [] query_type = "message_type" -> KwGet(kwargs, "limit", MessageTypeLimit)
      [] query_type = "phase" -> KwGet(kwargs, "limit", PhaseLimit)
      [] OTHER -> KwGet(kwargs, "limit", DefaultLimit)

\* the WHERE clause after `log_id = $1`; a missing keyword is None, which
\* as a NULL parameter equals nothing
Where(r, query_type, kwargs) ==
    CASE query_type = "critical_events" -> r.storage_strategy = "critical"
      [] query_type = "message_type" ->
            "message_type" \in DOMAIN kwargs /\ r.message_type = kwargs["message_type"]
      [] query_type = "phase" ->
            /\ "phase" \in DOMAIN kwargs
            /\ \E k \in 1..Len(r.phase_tags) : r.phase_tags[k] = kwargs["phase"]
      [] OTHER -> TRUE

\* the SELECT list
Columns(query_type) ==
    CASE query_type = "critical_events" ->
            {"message_type", "timestamp", "data", "phase_tags"}
      [] query_type = "message_type" ->
            {"message_type", "timestamp", "data", "sampling_index"}
      [] query_type = "phase" -> {"message_type", "timestamp", "data", "phase_tags"}
      [] OTHER -> {"message_type", "timestamp", "data", "storage_strategy"}

\* dict(row)
RowDict(r, query_type) == [c \in Columns(query_type) |-> r[c]]

\* variant: the rows of every log
MatchingOfAnyLog(rows, l, query_type, kwargs) ==
    {k \in 1..Len(rows) : Where(rows[k], query_type, kwargs)}

\* the positions of the rows the WHERE clause selects
Matching(rows, l, query_type, kwargs) ==
    {k \in 1..Len(rows) : rows[k].log_id = l /\ Where(rows[k], query_type, kwargs)}

\* the positions ids in increasing order
Positions(rows, ids) == SelectSeq([k \in 1..Len(rows) |-> k], LAMBDA k : k \in ids)

\* every order of at most n of the positions cand
RECURSIVE AnyOrder(_, _)
AnyOrder(cand, n) ==
    IF n = 0 \/ cand = <<>> THEN {<<>>}
    ELSE UNION {{<<cand[i]>> \o rest :
                    rest \in AnyOrder(SubSeq(cand, 1, i - 1)
                                          \o SubSeq(cand, i + 1, Len(cand)),
                                      n - 1)} : i \in 1..Len(cand)}

\* ORDER BY timestamp DESC LIMIT n over the rows at the positions cand,
\* whose timestamps lie in lo..hi: every order the statement may deliver
\* (rows of equal timestamp come in any order), as sequences of positions.
\* The rows newer than the middle of lo..hi come first, and the older ones
\* follow if the limit is not reached; halving keeps the depth small.
RECURSIVE NewestIn(_, _, _, _, _)
NewestIn(rows, cand, n, lo, hi) ==
    IF n = 0 \/ cand = <<>> THEN {<<>>}
    ELSE IF lo = hi THEN AnyOrder(cand, n)
    ELSE LET mid == (lo + hi) \div 2
             newer == SelectSeq(cand, LAMBDA k : rows[k].timestamp > mid)
             older == SelectSeq(cand, LAMBDA k : rows[k].timestamp <= mid)
         IN  IF Len(newer) >= n THEN NewestIn(rows, newer, n, mid + 1, hi)
             ELSE {x \o y : x \in NewestIn(rows, newer, n, mid + 1, hi),
                             y \in NewestIn(rows, older, n - Len(newer), lo, mid)}

Newest(rows, cand, n) ==
    IF cand = <<>> THEN {<<>>}
    ELSE LET timestamps == [i \in 1..Len(cand) |-> rows[cand[i]].timestamp]
         IN  NewestIn(rows, cand, n, MinOf(timestamps), MaxOf(timestamps))

\* what a call leaves in `query`
Returned(session_id, query_type, kwargs, ids) ==
    [session_id |-> session_id, query_type |-> query_type, kwargs |-> kwargs,
     outcome |-> "returned", ids |-> ids,
     rows |-> [k \in 1..Len(ids) |-> RowDict(db.smart_telemetry[ids[k]], query_type)]]

\* variant: the statement reads the rows of open transactions too
QueryReadingUncommitted(session_id, query_type, kwargs) ==
    /\ LET session_row == chat_sessions[session_id]
           table == db.smart_telemetry \o tx.smart_telemetry
       IN  IF ~session_row.exists \/ Falsy(session_row.file_id)
           THEN query' = Returned(session_id, query_type, kwargs, <<>>)
           ELSE LET parsed == IntOf(session_row.file_id.v)
                IN  IF ~parsed.ok
                    THEN query' = [session_id |-> session_id, query_type |-> query_type,
                                   kwargs |-> kwargs, outcome |-> "raised",
                                   error |-> "ValueError", ids |-> <<>>, rows |-> <<>>]
                    ELSE \E ids \in Newest(table,
                                           Positions(table,
                                               Matching(table, parsed.v, query_type,
                                                        kwargs)),
                                           LimitOf(query_type, kwargs)) :
                            query' = [session_id |-> session_id,
                                      query_type |-> query_type, kwargs |-> kwargs,
                                      outcome |-> "returned", ids |-> ids,
                                      rows |-> [k \in 1..Len(ids) |->
                                                   RowDict(table[ids[k]], query_type)],
                                      log_id |-> parsed.v]
    /\ UNCHANGED <<ingest_vars, db, chat_sessions, log_metadata, summary_call,
                   decode_vars, chat_vars>>

Query(session_id, query_type, kwargs) ==
    /\ LET session_row == chat_sessions[session_id]
       IN  IF ~session_row.exists \/ Falsy(session_row.file_id)
           THEN query' = Returned(session_id, query_type, kwargs, <<>>)
           ELSE LET parsed == IntOf(session_row.file_id.v)
                IN  IF ~parsed.ok
                    THEN query' = [session_id |-> session_id, query_type |-> query_type,
                                   kwargs |-> kwargs, outcome |-> "raised",
                                   error |-> "ValueError", ids |-> <<>>, rows |-> <<>>]
                    ELSE \E ids \in Newest(db.smart_telemetry,
                                           Positions(db.smart_telemetry,
                                               Matching(db.smart_telemetry, parsed.v,
                                                        query_type, kwargs)),
                                           LimitOf(query_type, kwargs)) :
                            query' = Returned(session_id, query_type, kwargs, ids)
                                        @@ [log_id |-> parsed.v]
    /\ UNCHANGED <<ingest_vars, db, chat_sessions, log_metadata, summary_call,
                   decode_vars, chat_vars>>

\* the keyword arguments of the calls of the model
Kwargs ==
    LET limits == {<<>>} \cup {[limit |-> n] : n \in 0..MaxLimit}
        types == {<<>>} \cup {[message_type |-> "HEARTBEAT"]}
        tags == {<<>>} \cup {[phase |-> t] : t \in {"startup", "flight"}}
    IN  [critical_events |-> limits,
         message_type |-> {a @@ b : a \in limits, b \in types},
         phase |-> {a @@ b : a \in limits, b \in tags},
         recent |-> limits]

QueryTypes == DOMAIN Kwargs

\* the rows a committed ingestion leaves in the store
RECURSIVE TelemetryRows(_, _, _, _)
TelemetryRows(l, msgs, plan, k) ==
    IF k > Len(plan) THEN <<>>
    ELSE RowsOfEntry(l, msgs, plan[k]) \o TelemetryRows(l, msgs, plan, k + 1)

Committed(l, msgs) ==
    [smart_telemetry |-> TelemetryRows(l, msgs, AnalyzeMessages(msgs), 1),
     flight_statistics |-> StatisticsRows(l, ComputeFlightStatistics(msgs)),
     flight_phases |-> PhaseRows(l, IdentifyFlightPhases(msgs)),
     message_summaries |-> SummaryRows(l, CreateMessageSummaries(msgs, NoStats))]

\* the stores the queries read: empty; log 2 and a short log 1, two records
\* per second; a long log 1, one record per second
QueryInputs ==
    {Stream(ts) : ts \in UNION {[1..n -> {"HEARTBEAT", "RARE_DEBUG"}] :
                                  n \in 1..MaxQueryLen}}

LongInput ==
    [k \in 1..QueryVolume |-> Message("HEARTBEAT", k - 1, DataOf("HEARTBEAT", k - 1))]

QueryStores ==
    {NoRows}
        \cup {[t \in Tables |->
                  Committed(2, Stream(<<"RARE_DEBUG", "HEARTBEAT">>))[t]
                      \o Committed(1, msgs)[t]] : msgs \in QueryInputs}
        \cup {Committed(1, LongInput)}

\* a store that earlier ingestions have filled, no session yet
InitQuery ==
    /\ messages = <<>>
    /\ log_id = 0
    /\ pc = "idle"
    /\ storage_plan = <<>>
    /\ cursor = 0
    /\ stored_stats = NoStats
    /\ tx = NoRows
    /\ db \in QueryStores
    /\ result = [status |-> "none"]
    /\ ingestions = 0
    /\ rolled_back = NoCount
    /\ chat_sessions = NoSessions
    /\ query = NoQuery
    /\ log_metadata = AllLogs
    /\ summary_call = NoSummary
    /\ raw_log = <<>>
    /\ parse_result = NoParse
    /\ safe_data = NoCoercion
    /\ chat_messages = <<>>
    /\ add_calls = NoCalls
    /\ turn = NoTurn

NextQuery ==
    \/ \E session_id \in Sessions, file_id \in FileIds :
            CreateSession(session_id, file_id)
    \/ \E session_id \in Sessions, query_type \in QueryTypes :
            \E kwargs \in Kwargs[query_type] : Query(session_id, query_type, kwargs)

SpecQuery == InitQuery /\ [][NextQuery]_vars

(***************************************************************************)
(* The coercion of the fields of one record: _make_json_safe.              *)
(***************************************************************************)
\* the fields of the decoded records of the model and the values each may
\* hold
FieldNames == <<"alt", "data", "q", "name">>
FieldValues ==
    [alt |-> <<Scalar(7), Scalar(0)>>,
     data |-> <<PyList(<<2, 1>>), NdArray(<<>>), NdArray(<<3, 1, 2>>)>>,
     q |-> <<NdArray(<<1, 0>>), PyList(<<>>), PyList(<<0, 1>>)>>,
     name |-> <<Scalar("AUTO"), Bytes("ab"), Uncallable("Proxy")>>]

\* the field mappings of at most MaxFields fields: field number i is absent
\* if pick[i] = 0 and holds its value number pick[i] otherwise
FieldPicks ==
    {pick \in [1..Len(FieldNames) -> 0..3] :
        /\ \A i \in 1..Len(FieldNames) : pick[i] <= Len(FieldValues[FieldNames[i]])
        /\ Cardinality({i \in 1..Len(FieldNames) : pick[i] > 0}) <= MaxFields}
FieldMapping(pick) ==
    [k \in {FieldNames[i] : i \in {j \in 1..Len(pick) : pick[j] > 0}} |->
        FieldValues[k][pick[CHOOSE i \in 1..Len(pick) : FieldNames[i] = k]]]

InitCoerce ==
    /\ messages = <<>>
    /\ log_id = 0
    /\ pc = "idle"
    /\ storage_plan = <<>>
    /\ cursor = 0
    /\ stored_stats = NoStats
    /\ tx = NoRows
    /\ db = NoRows
    /\ result = [status |-> "none"]
    /\ ingestions = 0
    /\ rolled_back = NoCount
    /\ chat_sessions = NoSessions
    /\ query = NoQuery
    /\ log_metadata = AllLogs
    /\ summary_call = NoSummary
    /\ raw_log = <<>>
    /\ parse_result = NoParse
    /\ safe_data = NoCoercion
    /\ chat_messages = <<>>
    /\ add_calls = NoCalls
    /\ turn = NoTurn

\* a call of _make_json_safe(data)
Coerce(data) ==
    /\ safe_data' = [data |-> data, outcome |-> "returned", value |-> MakeJsonSafe(data)]
    /\ UNCHANGED <<ingest_vars, db, chat_sessions, query, log_metadata, summary_call,
                   raw_log, parse_result, chat_vars>>

NextCoerce == \E pick \in FieldPicks : Coerce(FieldMapping(pick))

SpecCoerce == InitCoerce /\ [][NextCoerce]_vars

(***************************************************************************)
(* The decoder: parse_mavlink_log_bytes.  raw_log is the sequence of       *)
(* messages DFReader_binary delivers for the uploaded bytes, in file       *)
(* order; a message is its type and its fields.  Timestamps are kept in    *)
(* microseconds, so that seconds need no fractions.                        *)
(***************************************************************************)
\* float(time_boot_ms) / 1000.0 and float(time_usec) / 1e6, in microseconds
SecondsOfMs(ms) == ms * 1000
SecondsOfUsec(usec) == usec

\* the timestamp the decoder gives a message
TimestampOf(msg) ==
    IF "time_boot_ms" \in DOMAIN msg.fields
    THEN SecondsOfMs(msg.fields.time_boot_ms.v)
    ELSE IF "time_usec" \in DOMAIN msg.fields
    THEN SecondsOfUsec(msg.fields.time_usec.v)
    ELSE 0

\* msg.to_dict() without the keys that start with an underscore
PublicFields(fields) ==
    [k \in {n \in DOMAIN fields : SubSeq(n, 1, 1) # "_"} |-> fields[k]]

ParseMavlinkLogBytes(raw) ==
    [status |-> "success",
     messages |-> [i \in 1..Len(raw) |->
                     [message_type |-> raw[i].type,
                      timestamp |-> TimestampOf(raw[i]),
                      data |-> PublicFields(raw[i].fields)]],
     total_messages |-> Len(raw)]

\* the message of a type as the vehicle sends it clock milliseconds after
\* boot: ATTITUDE carries time_boot_ms, GPS_RAW_INT carries time_usec,
\* HEARTBEAT carries no time
RawTypes == {"ATTITUDE", "GPS_RAW_INT", "HEARTBEAT"}
RawMessage(type, clock) ==
    [type |-> type,
     fields |->
        CASE type = "ATTITUDE" ->
                 [mavpackettype |-> Scalar(type), time_boot_ms |-> Scalar(clock),
                  _timestamp |-> Scalar(clock)]
          [] type = "GPS_RAW_INT" ->
                 [mavpackettype |-> Scalar(type), time_usec |-> Scalar(clock * 1000),
                  _timestamp |-> Scalar(clock)]
          [] OTHER ->
                 [mavpackettype |-> Scalar(type), _timestamp |-> Scalar(clock)]]

\* the logs of at most MaxRawLen messages, written in the order of the clock
RawClocks == 0..2
RawLogs ==
    UNION {{[i \in 1..n |-> RawMessage(types[i], clocks[i])] :
               types \in [1..n -> RawTypes],
               clocks \in {c \in [1..n -> RawClocks] :
                              \A i \in 1..(n - 1) : c[i] <= c[i + 1]}} :
           n \in 0..MaxRawLen}

InitDecode ==
    /\ messages = <<>>
    /\ log_id = 0
    /\ pc = "idle"
    /\ storage_plan = <<>>
    /\ cursor = 0
    /\ stored_stats = NoStats
    /\ tx = NoRows
    /\ db = NoRows
    /\ result = [status |-> "none"]
    /\ ingestions = 0
    /\ rolled_back = NoCount
    /\ chat_sessions = NoSessions
    /\ query = NoQuery
    /\ log_metadata = AllLogs
    /\ summary_call = NoSummary
    /\ raw_log \in RawLogs
    /\ parse_result = NoParse
    /\ safe_data = NoCoercion
    /\ chat_messages = <<>>
    /\ add_calls = NoCalls
    /\ turn = NoTurn

\* the call parse_mavlink_log_bytes(file_bytes)
Decode ==
    /\ parse_result = NoParse
    /\ parse_result' = ParseMavlinkLogBytes(raw_log)
    /\ UNCHANGED <<ingest_vars, db, chat_sessions, query, log_metadata, summary_call,
                   raw_log, safe_data, chat_vars>>

\* the same call when DFReader raises on the bytes: the exception is caught
\* and reported
DecodeError ==
    /\ parse_result = NoParse
    /\ parse_result' = [status |-> "error", error |-> "Exception"]
    /\ UNCHANGED <<ingest_vars, db, chat_sessions, query, log_metadata, summary_call,
                   raw_log, safe_data, chat_vars>>

NextDecode ==
    \/ Decode
    \/ DecodeError

SpecDecode == InitDecode /\ [][NextDecode]_vars

(***************************************************************************)
(* A query beside an ingestion.  The ingestion writes on its connection     *)
(* inside conn.transaction(); the query runs one SELECT on a connection of *)
(* its own, which reads the committed rows (READ COMMITTED).               *)
(***************************************************************************)
\* the rows committed before, and the records being ingested
ConcurrentStores == {NoRows, Committed(1, Stream(<<"MODE", "HEARTBEAT">>))}
ConcurrentInputs ==
    {Stream(<<"MODE">>), Stream(<<"HEARTBEAT", "MODE", "HEARTBEAT">>)}

\* store_telemetry_intelligently(1, msgs) has opened its transaction; a
\* session is linked to log 1
InitConcurrent ==
    /\ messages \in ConcurrentInputs
    /\ log_id = 1
    /\ pc = "analyze"
    /\ storage_plan = <<>>
    /\ cursor = 0
    /\ stored_stats = NoStats
    /\ tx = NoRows
    /\ db \in ConcurrentStores
    /\ result = [status |-> "none"]
    /\ ingestions = 1
    /\ rolled_back = NoCount
    /\ chat_sessions = [s \in Sessions |-> SessionRow(FileId("1"))]
    /\ query = NoQuery
    /\ log_metadata = AllLogs
    /\ summary_call = NoSummary
    /\ raw_log = <<>>
    /\ parse_result = NoParse
    /\ safe_data = NoCoercion
    /\ chat_messages = <<>>
    /\ add_calls = NoCalls
    /\ turn = NoTurn

\* a query while the transaction holds rows that are not committed
QueryDuringIngestion(session_id, query_type, kwargs) ==
    /\ InTransaction
    /\ tx.smart_telemetry # <<>>
    /\ Query(session_id, query_type, kwargs)

\* a query after the transaction has ended, committed or rolled back
QueryAfterIngestion(session_id, query_type, kwargs) ==
    /\ ~InTransaction
    /\ Query(session_id, query_type, kwargs)

NextConcurrent ==
    \/ Pipeline
    \/ \E session_id \in Sessions, query_type \in QueryTypes :
            \E kwargs \in Kwargs[query_type] :
                QueryDuringIngestion(session_id, query_type, kwargs)
    \/ \E session_id \in Sessions, query_type \in QueryTypes :
            \E kwargs \in Kwargs[query_type] :
                QueryAfterIngestion(session_id, query_type, kwargs)

SpecConcurrent == InitConcurrent /\ [][NextConcurrent]_vars

(***************************************************************************)
(* The digest: get_intelligent_summary.  The text is kept as the list      *)
(* summary_parts it is joined from; a line that formats values of a row is *)
(* kept as a record of these values.                                       *)
(***************************************************************************)
Text(s) == [kind |-> "text", text |-> s]

\* the return value: None or the joined text
NoDigest == [kind |-> "none"]
Digest(summary_parts) == [kind |-> "str", parts |-> summary_parts]

\* the statistic types in the order of ORDER BY statistic_type
StatisticTypeOrder ==
    <<"avg_altitude", "avg_speed", "flight_duration", "max_altitude",
      "max_speed", "min_altitude", "total_distance">>

StatisticTypeRank(type) == CHOOSE k \in 1..Len(StatisticTypeOrder) : StatisticTypeOrder[k] = type

\* ORDER BY key [LIMIT n] over the rows at the positions cand, keys[k] being
\* the key of the row at position k: every order the statement may deliver
\* (rows of equal key come in any order), as sequences of positions
RECURSIVE InOrder(_, _, _)
InOrder(keys, cand, n) ==
    IF n = 0 \/ cand = <<>> THEN {<<>>}
    ELSE LET least == MinOf([i \in 1..Len(cand) |-> keys[cand[i]]])
             first == {i \in 1..Len(cand) : keys[cand[i]] = least}
         IN  UNION {{<<cand[i]>> \o rest :
                        rest \in InOrder(keys,
                                         SubSeq(cand, 1, i - 1)
                                             \o SubSeq(cand, i + 1, Len(cand)),
                                         n - 1)} : i \in first}

\* the positions of the rows of a log in a table
OfFile(rows, file_id) == Positions(rows, {k \in 1..Len(rows) : rows[k].log_id = file_id})

\* the three SELECTs, as sets of possible row lists
StatsRows(file_id) ==
    LET rows == db.flight_statistics
        keys == [k \in 1..Len(rows) |-> StatisticTypeRank(rows[k].statistic_type)]
        cand == OfFile(rows, file_id)
    IN  {[i \in 1..Len(ids) |-> rows[ids[i]]] : ids \in InOrder(keys, cand, Len(cand))}

SummaryRowsOf(file_id) ==
    LET rows == db.message_summaries
        keys == [k \in 1..Len(rows) |-> 0 - rows[k].total_count]
        cand == OfFile(rows, file_id)
    IN  {[i \in 1..Len(ids) |-> rows[ids[i]]] : ids \in InOrder(keys, cand, SummaryRowsLimit)}

PhaseRowsOf(file_id) ==
    LET rows == db.flight_phases
        keys == [k \in 1..Len(rows) |-> rows[k].start_time]
        cand == OfFile(rows, file_id)
    IN  {[i \in 1..Len(ids) |-> rows[ids[i]]] : ids \in InOrder(keys, cand, Len(cand))}

\* the parts of the text
HeaderParts(log_row) ==
    <<Text("=== COMPREHENSIVE FLIGHT LOG ANALYSIS ==="),
      [kind |-> "file", filename |-> log_row.filename],
      [kind |-> "vehicle",
       vehicle_type |-> IF log_row.vehicle_type = NoFile THEN "Unknown"
                        ELSE log_row.vehicle_type.v],
      Text("")>>

StatisticsParts(stats_rows) ==
    IF stats_rows # <<>>
    THEN <<Text("=== KEY FLIGHT STATISTICS ===")>>
            \o [i \in 1..Len(stats_rows) |->
                   [kind |-> "statistic",
                    statistic_type |-> stats_rows[i].statistic_type,
                    value |-> stats_rows[i].value, unit |-> stats_rows[i].unit]]
            \o <<Text("")>>
    ELSE <<>>

MessageParts(summary_rows) ==
    IF summary_rows # <<>>
    THEN LET total_original ==
                 SumSeq([i \in 1..Len(summary_rows) |-> summary_rows[i].total_count])
             total_stored ==
                 SumSeq([i \in 1..Len(summary_rows) |-> summary_rows[i].stored_count])
             top == SubSeq(summary_rows, 1, Min(TopMessageTypes, Len(summary_rows)))
         IN  <<Text("=== MESSAGE ANALYSIS ==="),
               [kind |-> "totals", total_original |-> total_original,
                total_stored |-> total_stored,
                efficiency |-> Ratio(total_stored, total_original)],
               Text("Top Message Types:")>>
                \o [i \in 1..Len(top) |->
                       [kind |-> "message_type", message_type |-> top[i].message_type,
                        total_count |-> top[i].total_count,
                        efficiency |->
                            IF top[i].stored_count # top[i].total_count
                            THEN <<top[i].stored_count, top[i].total_count>>
                            ELSE <<>>]]
                \o <<Text("")>>
    ELSE <<>>

\* variant: the heading is rendered whether or not there are phases
PhasePartsAlwaysHeaded(phase_rows) ==
    <<Text("=== FLIGHT PHASES ===")>>
        \o [i \in 1..Len(phase_rows) |->
               [kind |-> "phase", phase_name |-> phase_rows[i].phase_name,
                duration |-> phase_rows[i].end_time - phase_rows[i].start_time]]
        \o <<Text("")>>

PhaseParts(phase_rows) ==
    IF phase_rows # <<>>
    THEN <<Text("=== FLIGHT PHASES ===")>>
            \o [i \in 1..Len(phase_rows) |->
                   [kind |-> "phase", phase_name |-> phase_rows[i].phase_name,
                    duration |-> phase_rows[i].end_time - phase_rows[i].start_time]]
            \o <<Text("")>>
    ELSE <<>>

CapabilityParts ==
    <<Text("=== ANALYSIS CAPABILITIES ==="),
      Text("Available for detailed analysis:"),
      Text("All critical events and state changes stored"),
      Text("High-frequency data intelligently sampled"),
      Text("Flight statistics pre-computed"),
      Text("Temporal phase analysis available"),
      Text("Can retrieve specific data on demand")>>

\* what a call leaves in summary_call
SummaryReturned(session_id, value) ==
    [session_id |-> session_id, outcome |-> "returned", value |-> value]
SummaryRaised(session_id, error) ==
    [session_id |-> session_id, outcome |-> "raised", error |-> error, value |-> NoDigest]

\* fetchrow on log_metadata: the row, or None
LogRowOf(file_id) ==
    IF file_id \in DOMAIN log_metadata /\ log_metadata[file_id].exists
    THEN log_metadata[file_id] ELSE NoLog

GetIntelligentSummary(session_id) ==
    /\ LET session_row == chat_sessions[session_id]
       IN  IF ~session_row.exists \/ Falsy(session_row.file_id)
           THEN summary_call' = SummaryReturned(session_id, NoDigest)
           ELSE LET parsed == IntOf(session_row.file_id.v)
                IN  IF ~parsed.ok
                    THEN summary_call' = SummaryRaised(session_id, "ValueError")
                    ELSE LET log_row == LogRowOf(parsed.v)
                         IN  IF log_row = NoLog
                             \* log_row['filename'] of None
                             THEN summary_call' = SummaryRaised(session_id, "TypeError")
                             ELSE \E stats_rows \in StatsRows(parsed.v),
                                     summary_rows \in SummaryRowsOf(parsed.v),
                                     phase_rows \in PhaseRowsOf(parsed.v) :
                                     summary_call' =
                                         SummaryReturned(session_id,
                                             Digest(HeaderParts(log_row)
                                                 \o StatisticsParts(stats_rows)
                                                 \o MessageParts(summary_rows)
                                                 \o PhaseParts(phase_rows)
                                                 \o CapabilityParts))
    /\ UNCHANGED <<ingest_vars, db, chat_sessions, query, log_metadata, decode_vars,
                   chat_vars>>

\* variant: the rows of smart_telemetry stay behind
DeleteLogKeepingTelemetry(l) ==
    /\ log_metadata[l].exists
    /\ ~(InTransaction /\ log_id = l /\ tx # NoRows)
    /\ log_metadata' = [log_metadata EXCEPT ![l] = NoLog]
    /\ db' = [t \in Tables |->
                 IF t = "smart_telemetry" THEN db[t]
                 ELSE SelectSeq(db[t], LAMBDA r : r.log_id # l)]
    /\ UNCHANGED <<ingest_vars, chat_sessions, query, summary_call, decode_vars,
                   chat_vars>>

\* DELETE FROM log_metadata WHERE id = l: the foreign keys of the four
\* tables are declared ON DELETE CASCADE.  The delete waits for an open
\* transaction that has inserted rows of the log (they lock its row).
DeleteLog(l) ==
    /\ log_metadata[l].exists
    /\ ~(InTransaction /\ log_id = l /\ tx # NoRows)
    /\ log_metadata' = [log_metadata EXCEPT ![l] = NoLog]
    /\ db' = [t \in Tables |-> SelectSeq(db[t], LAMBDA r : r.log_id # l)]
    /\ UNCHANGED <<ingest_vars, chat_sessions, query, summary_call, decode_vars,
                   chat_vars>>

\* the stores the digest is made from: empty (the logs were uploaded, never
\* ingested); log 2 and a short log 1; a log 1 of many message types
SummaryInputs ==
    {Stream(ts) : ts \in UNION {[1..n -> {"MODE", "HEARTBEAT", "RARE_DEBUG"}] :
                                  n \in 1..MaxQueryLen}}

\* message type number i
TypeName(i) == "TYPE_" \o Str(i)

\* i records of type number i, for i up to ManyTypes, type after type
ManyTypesInput ==
    LET types == [k \in 1..((ManyTypes * (ManyTypes + 1)) \div 2) |->
                     TypeName(CHOOSE i \in 1..ManyTypes :
                                  (i * (i - 1)) \div 2 < k /\ k <= (i * (i + 1)) \div 2)]
    IN  Stream(types)

SummaryStores ==
    {NoRows}
        \cup {[t \in Tables |->
                  Committed(2, Stream(<<"MODE", "HEARTBEAT">>))[t]
                      \o Committed(1, msgs)[t]] : msgs \in SummaryInputs}
        \cup {Committed(1, ManyTypesInput)}

InitSummary ==
    /\ messages = <<>>
    /\ log_id = 0
    /\ pc = "idle"
    /\ storage_plan = <<>>
    /\ cursor = 0
    /\ stored_stats = NoStats
    /\ tx = NoRows
    /\ db \in SummaryStores
    /\ result = [status |-> "none"]
    /\ ingestions = 0
    /\ rolled_back = NoCount
    /\ chat_sessions = NoSessions
    /\ query = NoQuery
    /\ log_metadata = AllLogs
    /\ summary_call = NoSummary
    /\ raw_log = <<>>
    /\ parse_result = NoParse
    /\ safe_data = NoCoercion
    /\ chat_messages = <<>>
    /\ add_calls = NoCalls
    /\ turn = NoTurn

NextSummary ==
    \/ \E session_id \in Sessions, file_id \in FileIds :
            CreateSession(session_id, file_id)
    \/ \E l \in LogIds : DeleteLog(l)
    \/ \E session_id \in Sessions : GetIntelligentSummary(session_id)

SpecSummary == InitSummary /\ [][NextSummary]_vars

(***************************************************************************)
(* Chat: add_message and get_chat_history of the session manager, and the  *)
(* turn of the websocket endpoint that uses them.  The caller "ws" is the  *)
(* websocket connection whose turn is followed; "other" is any other       *)
(* coroutine that adds a message to the session.                           *)
(***************************************************************************)
ChatMessageRow(session_id, role, content, message_order) ==
    [session_id |-> session_id, role |-> role, content |-> content,
     message_order |-> message_order]

\* add_message up to its test of the count: the SELECT of message_count,
\* and `return False` if there is no session
Called(session_id, role, content) ==
    LET session_row == chat_sessions[session_id]
    IN  IF ~session_row.exists
        THEN [pc |-> "returned", session_id |-> session_id, role |-> role,
              content |-> content, value |-> FALSE]
        ELSE [pc |-> "read", session_id |-> session_id, role |-> role,
              content |-> content, current_count |-> session_row.message_count]

AddMessage(c, session_id, role, content) ==
    /\ add_calls[c].pc = "idle"
    /\ add_calls' = [add_calls EXCEPT ![c] = Called(session_id, role, content)]
    /\ UNCHANGED <<ingest_vars, db, chat_sessions, query, log_metadata, summary_call,
                   decode_vars, chat_messages, turn>>

\* the rest of add_message: the INSERT with message_order = new_count, the
\* UPDATE of message_count to new_count, the commit, `return True`
AddMessageWrite(c) ==
    /\ add_calls[c].pc = "read"
    /\ LET call == add_calls[c]
           new_count == call.current_count + 1
       IN  /\ chat_messages' =
                  Append(chat_messages,
                         ChatMessageRow(call.session_id, call.role, call.content,
                                        new_count))
           /\ chat_sessions' =
                  [chat_sessions EXCEPT ![call.session_id].message_count = new_count]
           /\ add_calls' =
                  [add_calls EXCEPT ![c] =
                      [pc |-> "returned", session_id |-> call.session_id,
                       role |-> call.role, content |-> call.content, value |-> TRUE]]
    /\ UNCHANGED <<ingest_vars, db, query, log_metadata, summary_call, decode_vars, turn>>

\* get_chat_history(session_id, limit, include_system): every list the
\* SELECT ... ORDER BY message_order ASC [LIMIT limit] may deliver, as
\* ChatMessage objects; `if limit` adds no LIMIT for 0
GetChatHistory(session_id, limit, include_system) ==
    LET rows == chat_messages
        keys == [k \in 1..Len(rows) |-> rows[k].message_order]
        cand == Positions(rows, {k \in 1..Len(rows) :
                                   /\ rows[k].session_id = session_id
                                   /\ include_system \/ rows[k].role # "system"})
    IN  {[i \in 1..Len(ids) |-> [role |-> rows[ids[i]].role,
                                  content |-> rows[ids[i]].content]] :
            ids \in InOrder(keys, cand, IF limit = 0 THEN Len(cand) ELSE limit)}

\* reversed(chat_history[:-1])
Reversed(s) == [i \in 1..Len(s) |-> s[Len(s) + 1 - i]]
AllButLast(s) == SubSeq(s, 1, Len(s) - 1)

\* the turn receives user_message for a session it has validated, and
\* calls add_message(session_id, "user", user_message)
Receive(session_id, user_message) ==
    /\ turn.pc = "idle"
    /\ add_calls["ws"].pc = "idle"
    /\ chat_sessions[session_id].exists
    /\ turn' = [pc |-> "store", session_id |-> session_id, user_message |-> user_message]
    /\ add_calls' = [add_calls EXCEPT !["ws"] = Called(session_id, "user", user_message)]
    /\ UNCHANGED <<ingest_vars, db, chat_sessions, query, log_metadata, summary_call,
                   decode_vars, chat_messages>>

\* after add_message has returned: the history is fetched and the
\* conversation context is built from it
BuildContext ==
    /\ turn.pc = "store"
    /\ add_calls["ws"].pc = "returned"
    /\ \E chat_history \in GetChatHistory(turn.session_id, HistoryLimit, FALSE) :
           turn' = [pc |-> "context", session_id |-> turn.session_id,
                    user_message |-> turn.user_message,
                    conversation_history |-> Reversed(AllButLast(chat_history))]
    /\ UNCHANGED <<ingest_vars, db, chat_sessions, query, log_metadata, summary_call,
                   decode_vars, chat_messages, add_calls>>

\* the messages n calls of add_message, one after the other, have stored
History(session_id, n) ==
    [k \in 1..n |->
        ChatMessageRow(session_id, IF k % 2 = 1 THEN "user" ELSE "assistant",
                       "m" \o Str(k), k)]

\* no session, or a session of 0..MaxHistory messages
InitChat ==
    /\ messages = <<>>
    /\ log_id = 0
    /\ pc = "idle"
    /\ storage_plan = <<>>
    /\ cursor = 0
    /\ stored_stats = NoStats
    /\ tx = NoRows
    /\ db = NoRows
    /\ result = [status |-> "none"]
    /\ ingestions = 0
    /\ rolled_back = NoCount
    /\ \/ /\ chat_sessions = NoSessions
          /\ chat_messages = <<>>
       \/ \E n \in 0..MaxHistory :
              /\ chat_sessions =
                     [s \in Sessions |-> [SessionRow(NoFile) EXCEPT !.message_count = n]]
              /\ chat_messages = History("s1", n)
    /\ query = NoQuery
    /\ log_metadata = AllLogs
    /\ summary_call = NoSummary
    /\ raw_log = <<>>
    /\ parse_result = NoParse
    /\ safe_data = NoCoercion
    /\ add_calls = NoCalls
    /\ turn = NoTurn

NextChat ==
    \/ \E session_id \in Sessions : Receive(session_id, "new")
    \/ \E session_id \in Sessions, role \in {"assistant", "system"} :
            AddMessage("other", session_id, role, "x")
    \/ \E c \in Callers : AddMessageWrite(c)
    \/ BuildContext

SpecChat == InitChat /\ [][NextChat]_vars

(***************************************************************************)
(* Properties.                                                             *)
(*                                                                         *)
(* The properties count and locate records by the definitions below, which *)
(* look at the input sequence itself and not at the classifier's lists.    *)
(***************************************************************************)
\* number of records of a type in the input
CountOf(msgs, t) == Cardinality({k \in 1..Len(msgs) : msgs[k].message_type = t})

\* types occurring in the input
TypesOf(msgs) == {msgs[k].message_type : k \in 1..Len(msgs)}

\* position of the record with index i among the records of its own type
\* (0 for the first record of the type)
PositionInType(msgs, i) ==
    Cardinality({j \in 0..(i - 1) : At(msgs, j).message_type = At(msgs, i).message_type})

CeilDiv(n, d) == (n + d - 1) \div d

\* the plan entries of a type
EntriesOf(plan, t) == SelectSeq(plan, LAMBDA e : e.msg_type = t)

\* the stored records of a type for the log of the ingestion
Stored(rows, t) ==
    SelectSeq(rows, LAMBDA r : r.log_id = log_id /\ r.message_type = t)

\* the summary rows of a type for the log of the ingestion
SummariesOf(rows, t) ==
    SelectSeq(rows, LAMBDA r : r.log_id = log_id /\ r.message_type = t)

Planned == pc \in {"store", "stats", "phases", "summaries", "commit", "done"}

\* C1: every message type of the critical set that occurs in the input is
\* planned with the critical strategy, and a completed ingestion has stored
\* every one of its records, whatever its volume and whatever other types
\* the input holds.
C1_CriticalStoredInFull ==
    \A t \in critical_messages \cap TypesOf(messages) :
        /\ Planned =>
              /\ Len(EntriesOf(storage_plan, t)) = 1
              /\ EntriesOf(storage_plan, t)[1].strategy = "critical"
        /\ pc = "done" =>
              LET rows == Stored(db.smart_telemetry, t)
              IN  /\ Len(rows) = CountOf(messages, t)
                  /\ {rows[k].sampling_index : k \in 1..Len(rows)}
                        = {i \in 0..(Len(messages) - 1) : At(messages, i).message_type = t}
                  /\ \A k \in 1..Len(rows) : rows[k].storage_strategy = "critical"

\* a completed ingestion of HighVolume records of a critical type, next to
\* records of other types, with all HighVolume records stored
C1_Witness ==
    /\ pc = "done"
    /\ CountOf(messages, "HEARTBEAT") = HighVolume
    /\ CountOf(messages, "RARE_DEBUG") >= RareThreshold
    /\ Len(Stored(db.smart_telemetry, "HEARTBEAT")) = HighVolume
    /\ Len(Stored(db.smart_telemetry, "RARE_DEBUG")) < CountOf(messages, "RARE_DEBUG")

\* the number of records the plan selects for n records sampled towards target
SampledSize(n, target) == CeilDiv(n, Max(1, n \div target))

\* C2: every message type of the input gets exactly one plan entry, chosen
\* by priority: a critical type is stored in full as critical; otherwise a
\* configured high-frequency type is sampled towards its own target, also
\* below 100 records; otherwise a type with fewer than 100 records is
\* stored in full; otherwise the type is sampled towards 50.
C2_TierPriority ==
    Planned =>
        /\ {storage_plan[k].msg_type : k \in 1..Len(storage_plan)} = TypesOf(messages)
        /\ \A t \in TypesOf(messages) :
              LET n == CountOf(messages, t)
                  entries == EntriesOf(storage_plan, t)
                  e == entries[1]
              IN  /\ Len(entries) = 1
                  /\ IF t \in critical_messages
                     THEN e.strategy = "critical" /\ Len(e.indices) = n
                     ELSE IF t \in DOMAIN high_frequency_messages
                     THEN /\ e.strategy = "sampled"
                          /\ Len(e.indices)
                                = SampledSize(n, high_frequency_messages[t].sample_rate)
                     ELSE IF n < 100
                     THEN e.strategy = "full" /\ Len(e.indices) = n
                     ELSE e.strategy = "sampled" /\ Len(e.indices) = SampledSize(n, 50)

\* a plan in which a non-configured type with exactly 100 records is
\* sampled (50 selected) and a configured type with 12 records is sampled too
C2_Witness ==
    /\ Planned
    /\ CountOf(messages, "RARE_DEBUG") = 100
    /\ CountOf(messages, "ATTITUDE") = 12
    /\ EntriesOf(storage_plan, "RARE_DEBUG")[1].strategy = "sampled"
    /\ Len(EntriesOf(storage_plan, "RARE_DEBUG")[1].indices) = 50
    /\ EntriesOf(storage_plan, "ATTITUDE")[1].strategy = "sampled"

\* the stride the sampling of n records of type t uses
StrideOf(t, n) ==
    IF t \in DOMAIN high_frequency_messages
    THEN Max(1, n \div high_frequency_messages[t].sample_rate)
    ELSE Max(1, n \div 50)

\* the types of the input that are sampled: configured high-frequency
\* types, and other non-critical types with 100 records or more
SampledTypes(msgs) ==
    {t \in TypesOf(msgs) \ critical_messages :
        t \in DOMAIN high_frequency_messages \/ CountOf(msgs, t) >= 100}

\* C3: a completed ingestion has stored, of a sampled type with N records
\* and target T, exactly ceil(N / stride) records with
\* stride = max(1, N // T), and they are the records number 0, stride,
\* 2 * stride, ... of the type, in the type's order.
C3_StrideSampling ==
    pc = "done" =>
        \A t \in SampledTypes(messages) :
            LET n == CountOf(messages, t)
                stride == StrideOf(t, n)
                rows == Stored(db.smart_telemetry, t)
            IN  /\ Len(rows) = CeilDiv(n, stride)
                /\ \A k \in 1..Len(rows) :
                      /\ At(messages, rows[k].sampling_index).message_type = t
                      /\ PositionInType(messages, rows[k].sampling_index)
                            = (k - 1) * stride
                      /\ rows[k].timestamp = At(messages, rows[k].sampling_index).timestamp

\* 900 ATTITUDE records (target 10) among 1000: exactly 10 are stored
C3_Witness ==
    /\ pc = "done"
    /\ Len(messages) = 1000
    /\ CountOf(messages, "ATTITUDE") = 900
    /\ Len(Stored(db.smart_telemetry, "ATTITUDE")) = 10
    /\ Len(Stored(db.smart_telemetry, "HEARTBEAT")) = 50
    /\ Len(Stored(db.smart_telemetry, "RARE_DEBUG")) = 50

LogRows(rows, l) == [t \in Tables |-> RowsOf(rows[t], l)]

\* C5: an ingestion is atomic.  No step before the commit changes a
\* committed row; a failure inside the transaction discards every row the
\* ingestion has written, so that a log without committed rows has none in
\* any of the four tables after the failure; the commit adds the rows of
\* all four tables together.
C5_Step ==
    /\ (InTransaction /\ pc' # "done") => db' = db
    /\ (InTransaction /\ pc' = "failed") =>
          /\ tx' = NoRows
          /\ \A l \in Logs : LogRows(db', l) = LogRows(db, l)
          /\ LogRows(db, log_id) = NoRows => LogRows(db', log_id) = NoRows
    /\ (InTransaction /\ pc' = "done") =>
          /\ \A t \in Tables : db'[t] = db[t] \o tx[t]
          /\ tx' = NoRows

\* C5: every step of every ingestion is atomic in the sense of C5_Step.
C5_IngestionIsAtomic == [][C5_Step]_vars

\* a failure after the tier rows were written and before the statistics
\* were: the rows are gone, the log has no row in any table, and the rows an
\* earlier ingestion committed for the other log are still there
C5_Witness ==
    /\ pc = "failed"
    /\ rolled_back.smart_telemetry > 0
    /\ rolled_back.flight_statistics = 0
    /\ tx = NoRows
    /\ LogRows(db, log_id) = NoRows
    /\ \E l \in Logs \ {log_id} : \A t \in Tables : RowsOf(db[t], l) # <<>>

\* the strategy the plan gives a type
StrategyOf(plan, t) == EntriesOf(plan, t)[1].strategy

\* C6 (violated): every message summary row of a completed ingestion has
\* stored_count <= total_count, with equality exactly for the types whose
\* tier is critical or full.
C6_StoredCountBelowTotalWhenSampled ==
    pc = "done" =>
        \A t \in TypesOf(messages) :
            LET rows == SummariesOf(db.message_summaries, t)
            IN  \A k \in 1..Len(rows) :
                    /\ rows[k].stored_count <= rows[k].total_count
                    /\ rows[k].stored_count = rows[k].total_count
                          <=> StrategyOf(storage_plan, t) \in {"critical", "full"}

\* the rows of the log of the ingestion
OfLog(rows) == SelectSeq(rows, LAMBDA r : r.log_id = log_id)

\* C7 (violated): after a completed ingestion the stored_count values of
\* the log's message summaries add up to the number of records stored for
\* the log.
C7_StoredCountsSumToRowsWritten ==
    pc = "done" =>
        LET rows == OfLog(db.message_summaries)
        IN  SumSeq([k \in 1..Len(rows) |-> rows[k].stored_count])
                = Len(OfLog(db.smart_telemetry))

\* C8: at every point of an ingestion the records stored so far are at
\* most as many as the input records, and no input index is stored twice;
\* the counters of the tier writer, which a completed ingestion reports,
\* add up to the number of rows.
C8_StoredAtMostOnce ==
    LET rows == OfLog(tx.smart_telemetry) \o OfLog(db.smart_telemetry)
        stored_indices == {rows[k].sampling_index : k \in 1..Len(rows)}
    IN  /\ Len(rows) <= Len(messages)
        /\ Cardinality(stored_indices) = Len(rows)
        /\ stored_indices \subseteq 0..(Len(messages) - 1)
        /\ pc # "failed" => TotalStored(stored_stats) = Len(rows)
        /\ pc = "done" =>
              /\ result.stored_critical + result.stored_sampled + result.stored_full
                    = Len(rows)
              /\ result.total_messages = Len(messages)

\* a completed ingestion that stored fewer records than it was given, of
\* three tiers
C8_Witness ==
    /\ pc = "done"
    /\ result.stored_critical > 0
    /\ result.stored_sampled > 0
    /\ result.stored_full > 0
    /\ Len(OfLog(db.smart_telemetry)) < Len(messages)

\* the band of p = index / total, with the bounds of each band spelled out
BandOf(index, total) ==
    CASE 10 * index < total -> "startup"
      [] total <= 10 * index /\ 5 * index < total -> "preflight"
      [] total <= 5 * index /\ 5 * index < 4 * total -> "flight"
      [] 4 * total <= 5 * index /\ 20 * index < 19 * total -> "landing"
      [] 19 * total <= 20 * index -> "shutdown"

BandRank(tag) ==
    CASE tag = "startup" -> 0
      [] tag = "preflight" -> 1
      [] tag = "flight" -> 2
      [] tag = "landing" -> 3
      [] tag = "shutdown" -> 4

\* C10: the first tag of every stored record is the progress tag of the
\* band its p = index / N lies in, one of the five; and among the records
\* of an ingestion a larger index never has an earlier band.
C10_ProgressBands ==
    LET rows == OfLog(tx.smart_telemetry) \o OfLog(db.smart_telemetry)
        n == Len(messages)
    IN  /\ \A k \in 1..Len(rows) :
              /\ rows[k].phase_tags # <<>>
              /\ rows[k].phase_tags[1]
                    \in {"startup", "preflight", "flight", "landing", "shutdown"}
              /\ rows[k].phase_tags[1] = BandOf(rows[k].sampling_index, n)
              /\ \A j \in 2..Len(rows[k].phase_tags) :
                    rows[k].phase_tags[j]
                        \notin {"startup", "preflight", "flight", "landing", "shutdown"}
        /\ pc = "done" =>
              \A b \in 0..3 :
                  LET low == {rows[k].sampling_index : k \in
                                 {k \in 1..Len(rows) : BandRank(rows[k].phase_tags[1]) <= b}}
                      high == {rows[k].sampling_index : k \in
                                 {k \in 1..Len(rows) : BandRank(rows[k].phase_tags[1]) > b}}
                  IN  \A i \in low : \A j \in high : i < j

\* 20 records, all stored: index 2 (p = 0.10) is tagged preflight, index 4
\* (p = 0.20) flight, index 16 (p = 0.80) landing, index 19 (p = 0.95) shutdown
C10_Witness ==
    /\ pc = "done"
    /\ Len(messages) = 20
    /\ Len(OfLog(db.smart_telemetry)) = 20
    /\ \A k \in 1..20 :
          LET r == OfLog(db.smart_telemetry)[k]
          IN  /\ r.sampling_index = 1 => r.phase_tags[1] = "startup"
              /\ r.sampling_index = 2 => r.phase_tags[1] = "preflight"
              /\ r.sampling_index = 4 => r.phase_tags[1] = "flight"
              /\ r.sampling_index = 16 => r.phase_tags[1] = "landing"
              /\ r.sampling_index = 19 => r.phase_tags[1] = "shutdown"

\* every smart_telemetry row, pending or committed
AllTelemetry == tx.smart_telemetry \o db.smart_telemetry

\* the rows of a table as a set
RowSet(rows) == {rows[k] : k \in 1..Len(rows)}

\* the tags of a row after its progress tag
EventTagsOf(r) == {r.phase_tags[k] : k \in 2..Len(r.phase_tags)}

(***************************************************************************)
(* C11: every stored record carries one progress tag and then its event    *)
(* tag, which follows from its type alone: critical_event exactly for      *)
(* TAKEOFF and LAND, mode_change exactly for MODE, alert exactly for the   *)
(* types whose name contains ERROR or ALERT; a record of any other type    *)
(* has no event tag.                                                       *)
(***************************************************************************)
C11_EventTagByType ==
    \A k \in 1..Len(AllTelemetry) :
        LET r == AllTelemetry[k]
            t == r.message_type
            ev == EventTagsOf(r)
        IN  /\ Len(r.phase_tags) \in {1, 2}
            /\ BandRank(r.phase_tags[1]) \in 0..4
            /\ ev \subseteq {"critical_event", "mode_change", "alert"}
            /\ "critical_event" \in ev <=> t \in {"TAKEOFF", "LAND"}
            /\ "mode_change" \in ev <=> t = "MODE"
            /\ "alert" \in ev <=> (In("ERROR", t) \/ In("ALERT", t))

\* committed rows of all three event kinds, of a type that holds ERROR
\* inside its name, and of a type without event tag
C11_Witness ==
    /\ pc = "done"
    /\ \E r \in RowSet(db.smart_telemetry) :
           r.message_type = "SYS_ERROR" /\ EventTagsOf(r) = {"alert"}
    /\ \E r \in RowSet(db.smart_telemetry) :
           r.message_type = "TAKEOFF" /\ EventTagsOf(r) = {"critical_event"}
    /\ \E r \in RowSet(db.smart_telemetry) :
           r.message_type = "TERRAIN_REPORT" /\ EventTagsOf(r) = {}

\* the flight_phases rows, pending or committed, once the phases are written
Phases == tx.flight_phases \o db.flight_phases
PhasesWritten == pc \in {"summaries", "commit", "done"}

\* the MODE records of the input, in order
ModeRecords == SelectSeq(messages, LAMBDA m : m.message_type = "MODE")

\* the timestamps of the input never decrease
Monotone(msgs) ==
    \A k \in 1..(Len(msgs) - 1) : msgs[k].timestamp <= msgs[k + 1].timestamp

(***************************************************************************)
(* C12: for an input whose timestamps never decrease, the phase list is    *)
(* empty when the input has no MODE record; otherwise the phases are in    *)
(* the order of their start times, each starts no later than it ends, and  *)
(* each ends no later than the next one starts.                            *)
(***************************************************************************)
C12_PhasesOrdered ==
    (PhasesWritten /\ Monotone(messages)) =>
        /\ ModeRecords = <<>> => Phases = <<>>
        /\ \A k \in 1..Len(Phases) : Phases[k].start_time <= Phases[k].end_time
        /\ \A k \in 1..(Len(Phases) - 1) :
              /\ Phases[k].start_time <= Phases[k + 1].start_time
              /\ Phases[k].end_time <= Phases[k + 1].start_time

\* two committed phases of positive length from an input in time order
C12_Witness ==
    /\ pc = "done"
    /\ Monotone(messages)
    /\ Len(db.flight_phases) = 2
    /\ \A k \in 1..2 : db.flight_phases[k].start_time < db.flight_phases[k].end_time

(***************************************************************************)
(* C13: every MODE record closes the open phase and opens a new one, also  *)
(* when it repeats the mode: there are as many phases as MODE records,     *)
(* each phase but the last ends where the next starts, at the timestamp of *)
(* the next MODE record, and the last phase ends at the timestamp of the   *)
(* last record of the input.                                               *)
(***************************************************************************)
C13_PhasePerModeRecord ==
    PhasesWritten =>
        /\ Len(Phases) = Len(ModeRecords)
        /\ \A k \in 1..(Len(Phases) - 1) :
              /\ Phases[k].end_time = Phases[k + 1].start_time
              /\ Phases[k].end_time = ModeRecords[k + 1].timestamp
        /\ Phases # <<>> =>
              Phases[Len(Phases)].end_time = messages[Len(messages)].timestamp

\* two MODE records with the same mode, then another record: two committed
\* phases of the same name
C13_Witness ==
    /\ pc = "done"
    /\ Len(messages) = 3
    /\ Len(ModeRecords) = 2
    /\ messages[3].message_type # "MODE"
    /\ ModeRecords[1].data = ModeRecords[2].data
    /\ Len(db.flight_phases) = 2
    /\ db.flight_phases[1].phase_name = db.flight_phases[2].phase_name

(***************************************************************************)
(* C14: no phase covers the records before the first MODE record: the      *)
(* first phase starts at the timestamp of the first MODE record and is     *)
(* named mode_<its mode>.  For the records at 0, 100 and 200 seconds of    *)
(* which only the one at 100 is a MODE record, with mode GUIDED, there is  *)
(* exactly one phase, mode_GUIDED from 100 to 200.                         *)
(***************************************************************************)
C14_Scenario ==
    <<Message("HEARTBEAT", 0, NoData),
      Message("MODE", 100, [mode |-> Scalar("GUIDED")]),
      Message("HEARTBEAT", 200, NoData)>>

C14_FirstPhaseAtFirstMode ==
    PhasesWritten =>
        /\ ModeRecords # <<>> =>
              /\ Phases # <<>>
              /\ Phases[1].start_time = ModeRecords[1].timestamp
              /\ Phases[1].phase_name = "mode_" \o ModeRecords[1].data.mode.v
        /\ messages = C14_Scenario =>
              Phases = <<[log_id |-> log_id, phase_name |-> "mode_GUIDED",
                          start_time |-> 100, end_time |-> 200]>>

\* the scenario, committed
C14_Witness ==
    /\ pc = "done"
    /\ messages = C14_Scenario
    /\ Len(db.flight_phases) = 1

\* the flight_statistics rows, pending or committed, once they are written
Statistics == tx.flight_statistics \o db.flight_statistics
StatisticsWritten == pc \in {"phases", "summaries", "commit", "done"}

\* the rows of one statistic type
StatisticsOf(type) == SelectSeq(Statistics, LAMBDA r : r.statistic_type = type)

GpsRecords == SelectSeq(messages, LAMBDA m : m.message_type = "GLOBAL_POSITION_INT")

(***************************************************************************)
(* C15: the statistics of a non-empty input hold flight_duration exactly   *)
(* once, equal to the last timestamp minus the first; max_altitude,        *)
(* min_altitude and avg_altitude are present exactly when some             *)
(* GLOBAL_POSITION_INT record carries relative_alt; total_distance is      *)
(* absent when there is no GLOBAL_POSITION_INT record or the first or the  *)
(* last of them lacks lat or lon; no statistic type occurs twice; and the  *)
(* statistics are computed whichever fields are missing.                   *)
(***************************************************************************)
C15_StatisticsPresence ==
    /\ pc = "stats" => ENABLED StoreFlightStatistics
    /\ StatisticsWritten =>
          /\ Len(StatisticsOf("flight_duration")) = 1
          /\ StatisticsOf("flight_duration")[1].value =
                Ratio(messages[Len(messages)].timestamp - messages[1].timestamp, 1)
          /\ \A type \in {"max_altitude", "min_altitude", "avg_altitude"} :
                StatisticsOf(type) # <<>> <=>
                    \E k \in 1..Len(GpsRecords) :
                        "relative_alt" \in DOMAIN GpsRecords[k].data
          /\ (\/ GpsRecords = <<>>
              \/ {"lat", "lon"} \ DOMAIN GpsRecords[1].data # {}
              \/ {"lat", "lon"} \ DOMAIN GpsRecords[Len(GpsRecords)].data # {})
                => StatisticsOf("total_distance") = <<>>
          /\ \A j, k \in 1..Len(Statistics) :
                Statistics[j].statistic_type = Statistics[k].statistic_type => j = k

\* committed statistics of an input with a position record without
\* relative_alt, one with it, and a last position record without lat
C15_Witness ==
    /\ pc = "done"
    /\ Len(GpsRecords) = 3
    /\ "relative_alt" \notin DOMAIN GpsRecords[1].data
    /\ "relative_alt" \in DOMAIN GpsRecords[2].data
    /\ "lat" \notin DOMAIN GpsRecords[3].data
    /\ Len(db.flight_statistics) = 4
    /\ db.flight_statistics[4].statistic_type = "flight_duration"
    /\ db.flight_statistics[4].value = Ratio(20, 1)

\* a step that is a call of store_telemetry_intelligently with an empty list
C16_Step ==
    (ingestions' = ingestions + 1 /\ messages' = <<>>) =>
        /\ result'.status = "error"
        /\ pc' = "rejected"
        /\ db' = db
        /\ tx' = NoRows

(***************************************************************************)
(* C16: an ingestion of the empty sequence returns an error result and     *)
(* writes nothing: no transaction is opened and each of the four row sets  *)
(* of the store is what it was before the call.                            *)
(***************************************************************************)
C16_EmptyInputRefused == [][C16_Step]_vars

\* an empty list refused after another ingestion has committed its rows
C16_Witness ==
    /\ pc = "rejected"
    /\ messages = <<>>
    /\ result.status = "error"
    /\ db.smart_telemetry # <<>>
    /\ tx = NoRows

(***************************************************************************)
(* C17: whatever ingestions have committed, the store holds at most one    *)
(* flight_statistics row for a log id and a statistic type.                *)
(***************************************************************************)
C17_OneRowPerStatistic ==
    \A j, k \in 1..Len(db.flight_statistics) :
        LET a == db.flight_statistics[j]
            b == db.flight_statistics[k]
        IN  (a.log_id = b.log_id /\ a.statistic_type = b.statistic_type) => j = k

(***************************************************************************)
(* C18: whatever ingestions of inputs in time order have committed, no two *)
(* smart_telemetry rows of the same log id and message type have the same  *)
(* sampling_index, and of two such rows the one with the larger            *)
(* sampling_index does not have the smaller timestamp.                     *)
(***************************************************************************)
C18_IndexUniqueAndOrdered ==
    \A j, k \in 1..Len(db.smart_telemetry) :
        LET a == db.smart_telemetry[j]
            b == db.smart_telemetry[k]
        IN  (a.log_id = b.log_id /\ a.message_type = b.message_type) =>
                /\ a.sampling_index = b.sampling_index => j = k
                /\ a.sampling_index > b.sampling_index => a.timestamp >= b.timestamp

\* the rows a query of the given kind has to choose from, by the words of
\* the claim
C19_Candidates(l, query_type, kwargs) ==
    {k \in 1..Len(db.smart_telemetry) :
        LET r == db.smart_telemetry[k]
        IN  /\ r.log_id = l
            /\ query_type = "critical_events" => r.storage_strategy = "critical"
            /\ query_type = "message_type" =>
                  /\ "message_type" \in DOMAIN kwargs
                  /\ r.message_type = kwargs["message_type"]
            /\ query_type = "phase" =>
                  /\ "phase" \in DOMAIN kwargs
                  /\ kwargs["phase"] \in {r.phase_tags[j] : j \in 1..Len(r.phase_tags)}}

\* the limit of a call: the one given, or the default of its query type
C19_Limit(query_type, kwargs) ==
    IF "limit" \in DOMAIN kwargs THEN kwargs["limit"]
    ELSE CASE query_type = "critical_events" -> CriticalEventsLimit
           [] query_type = "message_type" -> MessageTypeLimit
           [] query_type = "phase" -> PhaseLimit
           [] OTHER -> DefaultLimit

(***************************************************************************)
(* C19: a query that reads the store returns at most `limit` rows, all of  *)
(* the log the session is linked to and all passing the filter of its      *)
(* query type (tier critical; the given message type; the given tag among  *)
(* the phase tags; none for the default type), newest first; and when more *)
(* than `limit` rows pass, it returns `limit` rows none of which is older  *)
(* than a passing row it leaves out.                                       *)
(***************************************************************************)
C19_QueryResult ==
    (query.outcome = "returned" /\ "log_id" \in DOMAIN query) =>
        LET rows == db.smart_telemetry
            ids == query.ids
            limit == C19_Limit(query.query_type, query.kwargs)
            candidates == C19_Candidates(query.log_id, query.query_type, query.kwargs)
        IN  /\ chat_sessions[query.session_id] = SessionRow(FileId(Str(query.log_id)))
            /\ Len(query.rows) = Len(ids)
            /\ Len(ids) <= limit
            /\ \A i \in 1..Len(ids) :
                  /\ ids[i] \in candidates
                  /\ \A c \in DOMAIN query.rows[i] : query.rows[i][c] = rows[ids[i]][c]
                  /\ query.rows[i].timestamp = rows[ids[i]].timestamp
            /\ \A i, j \in 1..Len(ids) : i # j => ids[i] # ids[j]
            /\ \A i \in 1..(Len(ids) - 1) :
                  rows[ids[i]].timestamp >= rows[ids[i + 1]].timestamp
            /\ Cardinality(candidates) > limit =>
                  /\ Len(ids) = limit
                  /\ \A k \in candidates \ {ids[i] : i \in 1..Len(ids)} :
                        \A i \in 1..Len(ids) :
                            rows[ids[i]].timestamp >= rows[k].timestamp

\* a critical-events query with limit 1 on a log with two critical rows of
\* different times and a row of another tier, beside the rows of another log
C19_Witness ==
    /\ query.outcome = "returned"
    /\ "log_id" \in DOMAIN query
    /\ query.log_id = 1
    /\ query.query_type = "critical_events"
    /\ query.kwargs = [limit |-> 1]
    /\ Len(query.rows) = 1
    /\ query.rows[1].timestamp = 1
    /\ Cardinality(C19_Candidates(1, "critical_events", query.kwargs)) = 2
    /\ \E r \in RowSet(db.smart_telemetry) : r.log_id = 1 /\ r.storage_strategy = "full"
    /\ \E r \in RowSet(db.smart_telemetry) : r.log_id = 2

\* the same for a default limit: the phase query without `limit` on the
\* long log
C19_DefaultLimitReached ==
    /\ query.outcome = "returned"
    /\ query.query_type = "phase"
    /\ query.kwargs = [phase |-> "flight"]
    /\ Len(query.rows) = PhaseLimit
    /\ Cardinality(C19_Candidates(1, "phase", query.kwargs)) > PhaseLimit

(***************************************************************************)
(* C20: a query of any type returns the empty list and raises nothing when *)
(* the session is unknown, when the session has no linked file, and when   *)
(* the linked file id is not the id of a log with stored rows (no such     *)
(* log, or a log without rows).                                            *)
(***************************************************************************)
C20_NoDataIsEmptyResult ==
    query.outcome # "none" =>
        LET session_row == chat_sessions[query.session_id]
        IN  (\/ ~session_row.exists
             \/ session_row.file_id = NoFile
             \/ ~\E r \in RowSet(db.smart_telemetry) :
                    session_row.file_id = FileId(Str(r.log_id)))
                => (query.outcome = "returned" /\ query.rows = <<>>)

(***************************************************************************)
(* C21: a request for the digest returns None and raises nothing whenever  *)
(* there is no data for it: the session is unknown, the session has no     *)
(* linked file, or the linked file id is the id of no existing log (for    *)
(* instance a log deleted after the session was linked).                   *)
(***************************************************************************)
C21_NoData(session_id) ==
    LET session_row == chat_sessions[session_id]
    IN  \/ ~session_row.exists
        \/ Falsy(session_row.file_id)
        \/ /\ IntOf(session_row.file_id.v).ok
           /\ LogRowOf(IntOf(session_row.file_id.v).v) = NoLog

C21_Step ==
    summary_call' # summary_call /\ C21_NoData(summary_call'.session_id)
        => summary_call' = SummaryReturned(summary_call'.session_id, NoDigest)

C21_NoDataIsNone == [][C21_Step]_vars

(***************************************************************************)
(* C22: in every digest, the statistics section, the message section and   *)
(* the phase section are each present exactly if the log has at least one  *)
(* stored row of that kind; of an absent section not even the heading is   *)
(* rendered.  The message types are listed by total count, largest first,  *)
(* and no type left out has a larger total count than a listed one.        *)
(***************************************************************************)
HasText(parts, s) == \E i \in 1..Len(parts) : parts[i] = Text(s)
PartsOfKind(parts, kind) == SelectSeq(parts, LAMBDA part : part.kind = kind)
HasRows(table, l) == \E i \in 1..Len(db[table]) : db[table][i].log_id = l

C22_Step ==
    summary_call' # summary_call /\ summary_call'.value.kind = "str"
        => LET parts == summary_call'.value.parts
               l == IntOf(chat_sessions[summary_call'.session_id].file_id.v).v
               listed == PartsOfKind(parts, "message_type")
               summaries == SelectSeq(db.message_summaries, LAMBDA r : r.log_id = l)
           IN  /\ HasText(parts, "=== KEY FLIGHT STATISTICS ===")
                      <=> HasRows("flight_statistics", l)
               /\ PartsOfKind(parts, "statistic") # <<>>
                      <=> HasRows("flight_statistics", l)
               /\ HasText(parts, "=== MESSAGE ANALYSIS ===")
                      <=> HasRows("message_summaries", l)
               /\ HasText(parts, "Top Message Types:")
                      <=> HasRows("message_summaries", l)
               /\ listed # <<>> <=> HasRows("message_summaries", l)
               /\ HasText(parts, "=== FLIGHT PHASES ===") <=> HasRows("flight_phases", l)
               /\ PartsOfKind(parts, "phase") # <<>> <=> HasRows("flight_phases", l)
               /\ \A i \in 1..(Len(listed) - 1) :
                      listed[i].total_count >= listed[i + 1].total_count
               /\ \A i \in 1..Len(listed) :
                      \E k \in 1..Len(summaries) :
                          /\ summaries[k].message_type = listed[i].message_type
                          /\ summaries[k].total_count = listed[i].total_count
               /\ \A k \in 1..Len(summaries) :
                      \/ \E i \in 1..Len(listed) :
                             listed[i].message_type = summaries[k].message_type
                      \/ /\ Len(listed) = TopMessageTypes
                         /\ summaries[k].total_count <= listed[Len(listed)].total_count

C22_SectionsFollowRows == [][C22_Step]_vars

\* a digest of the log of many types: a message section of the eight
\* largest types, the type stored last listed first, and no phase section
C22_Witness ==
    /\ summary_call.outcome = "returned"
    /\ summary_call.value.kind = "str"
    /\ LET parts == summary_call.value.parts
           listed == PartsOfKind(parts, "message_type")
       IN  /\ Len(listed) = TopMessageTypes
           /\ listed[1].message_type = TypeName(ManyTypes)
           /\ HasText(parts, "=== MESSAGE ANALYSIS ===")
           /\ ~HasText(parts, "=== FLIGHT PHASES ===")
           /\ HasText(parts, "=== KEY FLIGHT STATISTICS ===")

(***************************************************************************)
(* C23: the deletion of a log leaves no row of that log in any of the four *)
(* tables (telemetry, phases, statistics, summaries) and leaves the rows   *)
(* of every other log as they were, in number, content and order.          *)
(***************************************************************************)
RowsOfOthers(rows, l) == SelectSeq(rows, LAMBDA r : r.log_id # l)

C23_Step ==
    \A l \in LogIds :
        log_metadata[l].exists /\ ~log_metadata'[l].exists
            => \A t \in Tables :
                   /\ \A i \in 1..Len(db'[t]) : db'[t][i].log_id # l
                   /\ RowsOfOthers(db'[t], l) = RowsOfOthers(db[t], l)

C23_DeleteCascades == [][C23_Step]_vars

\* log 1 has been deleted from a store that held rows of logs 1 and 2 in
\* every table it writes; the rows of log 2 are there
C23_Witness ==
    /\ ~log_metadata[1].exists
    /\ log_metadata[2].exists
    /\ \A t \in Tables : ~HasRows(t, 1)
    /\ \A t \in Tables : db[t] = Committed(2, Stream(<<"MODE", "HEARTBEAT">>))[t]
    /\ HasRows("smart_telemetry", 2) /\ HasRows("message_summaries", 2)

(***************************************************************************)
(* C24: a query that runs beside an ingestion of the same log returns      *)
(* committed rows only.  While the ingestion's transaction is open the     *)
(* result is the newest rows, up to the limit, of those committed before   *)
(* it began: no row the ingestion has written so far, hence no part of it  *)
(* and nothing of an ingestion that is rolled back later.  After the       *)
(* commit the result is taken from all rows of the ingestion and the ones  *)
(* before it; after a rollback from the ones before it.                    *)
(***************************************************************************)
C24_Step ==
    query' # query /\ query'.outcome = "returned"
        => LET committed == Matching(db.smart_telemetry, query'.log_id, query'.query_type,
                                     query'.kwargs)
               ids == query'.ids
           IN  /\ \A k \in 1..Len(ids) : ids[k] \in committed
               /\ \A j, k \in 1..Len(ids) : ids[j] = ids[k] => j = k
               /\ Len(ids) = Min(LimitOf(query'.query_type, query'.kwargs),
                                 Cardinality(committed))
               /\ query'.rows = [k \in 1..Len(ids) |->
                                    RowDict(db.smart_telemetry[ids[k]],
                                            query'.query_type)]
               /\ pc = "done"
                      => \A t \in Tables :
                             \E before \in ConcurrentStores :
                                 db[t] = before[t] \o Committed(1, messages)[t]
               /\ pc # "done" => db \in ConcurrentStores

C24_QuerySeesCommittedOnly == [][C24_Step]_vars

\* the transaction holds rows of log 1 that are not committed, and a query
\* made at such a moment has returned rows: those committed earlier
C24_Witness ==
    /\ InTransaction
    /\ tx.smart_telemetry # <<>>
    /\ db.smart_telemetry # <<>>
    /\ query.outcome = "returned"
    /\ query.ids # <<>>
    /\ Len(query.ids) = Len(db.smart_telemetry)

(***************************************************************************)
(* C25: the coercion of a field mapping always returns, with the same      *)
(* field names; an array-like value has become the list of its elements in *)
(* their order, every value of a type that cannot be serialized has become *)
(* its string, and so every value of the result is a scalar or a list.     *)
(***************************************************************************)
SerializationSafe(val) == val.kind \in {"scalar", "list"}

C25_CoercionTotalAndSafe ==
    safe_data.outcome # "none"
        => /\ safe_data.outcome = "returned"
           /\ DOMAIN safe_data.value = DOMAIN safe_data.data
           /\ \A k \in DOMAIN safe_data.data :
                  LET val == safe_data.data[k]
                      safe == safe_data.value[k]
                  IN  /\ SerializationSafe(safe)
                      /\ val.kind \in {"ndarray", "list"} => safe = PyList(val.v)
                      /\ val.kind = "scalar" => safe = val
                      /\ ~SerializationSafe(val) /\ val.kind # "ndarray"
                             => safe = StrOf(val)

(***************************************************************************)
(* C26: the records the decoder returns are in non-decreasing order of     *)
(* timestamp, whatever mixture of messages with time_boot_ms, with         *)
(* time_usec and without a time field the log holds.                       *)
(***************************************************************************)
C26_TimestampsNonDecreasing ==
    parse_result.status = "success"
        => \A i, j \in 1..Len(parse_result.messages) :
               i <= j => parse_result.messages[i].timestamp
                             <= parse_result.messages[j].timestamp

(***************************************************************************)
(* C27: the conversation context of a chat turn is made of the most recent *)
(* messages of the session that are not system messages and not the        *)
(* message just received: the last 19 or the last 20 of them, all of them  *)
(* if there are fewer; also when the session holds more than 20 messages.  *)
(***************************************************************************)
LastOf(s, n) == SubSeq(s, Max(1, Len(s) + 1 - n), Len(s))
Elements(s) == {s[i] : i \in 1..Len(s)}

\* the messages of the session before the one just received, system
\* messages left out, oldest first
C27_Earlier ==
    LET own == CHOOSE k \in 1..Len(chat_messages) :
                   /\ chat_messages[k].content = turn.user_message
                   /\ chat_messages[k].role = "user"
        rows == SelectSeq(SubSeq(chat_messages, 1, own - 1) 
                              \o SubSeq(chat_messages, own + 1, Len(chat_messages)),
                          LAMBDA r : r.session_id = turn.session_id /\ r.role # "system")
    IN  [i \in 1..Len(rows) |-> [role |-> rows[i].role, content |-> rows[i].content]]

C27_Step ==
    turn.pc = "store" /\ turn'.pc = "context"
        => \E n \in {HistoryLimit - 1, HistoryLimit} :
               /\ Len(turn'.conversation_history) = Len(LastOf(C27_Earlier, n))
               /\ Elements(turn'.conversation_history) = Elements(LastOf(C27_Earlier, n))

C27_ContextIsRecent == [][C27_Step]_vars

(***************************************************************************)
(* C28: when no call of add_message is in progress, the message_count of   *)
(* every session is the number of its stored messages and their            *)
(* message_order values are 1..message_count, each once; a call for a      *)
(* session that does not exist has returned False and stored nothing.      *)
(***************************************************************************)
MessagesOf(session_id) ==
    SelectSeq(chat_messages, LAMBDA r : r.session_id = session_id)

C28_CountAndOrderConsistent ==
    (\A c \in Callers : add_calls[c].pc # "read")
        => /\ \A s \in Sessions :
                  LET rows == MessagesOf(s)
                  IN  IF chat_sessions[s].exists
                      THEN /\ chat_sessions[s].message_count = Len(rows)
                           /\ \A i, j \in 1..Len(rows) :
                                  rows[i].message_order = rows[j].message_order => i = j
                           /\ {rows[i].message_order : i \in 1..Len(rows)}
                                  = 1..chat_sessions[s].message_count
                      ELSE rows = <<>>
           /\ \A c \in Callers :
                  add_calls[c].pc = "returned" /\ ~chat_sessions[add_calls[c].session_id].exists
                      => add_calls[c].value = FALSE

(***************************************************************************)
(* C29: a completed ingestion of a non-empty input has stored at least one *)
(* record of every message type of the input, and among them the first     *)
(* record of the type; so the message types of the stored records of the   *)
(* log are exactly the message types of the input.                         *)
(***************************************************************************)
C29_EveryTypeKeepsItsFirst ==
    pc = "done" /\ messages # <<>> =>
        /\ \A t \in TypesOf(messages) :
               LET rows == Stored(db.smart_telemetry, t)
               IN  /\ rows # <<>>
                   /\ \E k \in 1..Len(rows) :
                          /\ At(messages, rows[k].sampling_index).message_type = t
                          /\ PositionInType(messages, rows[k].sampling_index) = 0
                          /\ rows[k].timestamp = At(messages, rows[k].sampling_index).timestamp
        /\ {db.smart_telemetry[k].message_type : k \in 1..Len(db.smart_telemetry)}
               = TypesOf(messages)

\* 900 ATTITUDE records that follow records of other types: 10 of them are
\* stored, the first one among them
C29_Witness ==
    /\ pc = "done"
    /\ CountOf(messages, "ATTITUDE") = 900
    /\ At(messages, 0).message_type # "ATTITUDE"
    /\ LET rows == Stored(db.smart_telemetry, "ATTITUDE")
       IN  /\ Len(rows) = 10
           /\ \E k \in 1..Len(rows) :
                  /\ rows[k].sampling_index > 0
                  /\ PositionInType(messages, rows[k].sampling_index) = 0

(***************************************************************************)
(* C30: the number of records a completed ingestion has stored of a type   *)
(* sampled towards 50 (not critical, not configured, 100 records or more)  *)
(* is at least 50 and at most 75; of a configured high-frequency type with *)
(* target T and N records it is at least min(N, T) and at most 2T - 1.     *)
(***************************************************************************)
C30_StoredCountNearTarget ==
    pc = "done" =>
        \A t \in SampledTypes(messages) :
            LET n == CountOf(messages, t)
                stored == Len(Stored(db.smart_telemetry, t))
            IN  IF t \in DOMAIN high_frequency_messages
                THEN LET target == high_frequency_messages[t].sample_rate
                     IN  Min(n, target) <= stored /\ stored <= 2 * target - 1
                ELSE 50 <= stored /\ stored <= 75

\* 149 records sampled towards 50 leave 75, the upper limit; beside them
\* 12 records of a type with target 10 leave 12, more than the target
C30_Witness ==
    /\ pc = "done"
    /\ CountOf(messages, "RARE_DEBUG") = 149
    /\ Len(Stored(db.smart_telemetry, "RARE_DEBUG")) = 75
    /\ CountOf(messages, "ATTITUDE") = 12
    /\ Len(Stored(db.smart_telemetry, "ATTITUDE")) = 12
    /\ high_frequency_messages["ATTITUDE"].sample_rate = 10

====
